---- MODULE Spec2Model ----
(***************************************************************************)
(* Model of the gradient-stop extractor (src/src/svg_gradient.rs):         *)
(* parse_svg walks the tag events of an SVG document and accumulates one   *)
(* SvgGradient record per gradient element; gradient_builder pads a record *)
(* so that it covers [0, 1] and hands it to the gradient builder.          *)
(*                                                                         *)
(* An Option<T> is a sequence: <<>> is None and <<x>> is Some(x).          *)
(* An f32 is a record [k, v]: a finite value counted in hundredths         *)
(* (F(50) is 0.5), NaN, or an infinity.                                    *)
(***************************************************************************)
EXTENDS Integers, Sequences, FiniteSets, TLC

\* ------------------------------------------------------------------ bounds
\* events read from one document
MaxEvents == 5
\* stop tags among them
MaxStops == 2

\* ------------------------------------------------------------------ f32
None == <<>>
Some(x) == <<x>>

F(n) == [k |-> "fin", v |-> n]
NaN == [k |-> "nan", v |-> 0]
PosInf == [k |-> "inf", v |-> 1]
NegInf == [k |-> "inf", v |-> -1]

\* f32::is_finite
IsFinite(x) == x.k = "fin"

\* a < b on f32 (false when either side is NaN)
FLt(a, b) ==
    CASE a.k = "nan" \/ b.k = "nan" -> FALSE
      [] a.k = "fin" /\ b.k = "fin" -> a.v < b.v
      [] a.k = "inf" /\ b.k = "inf" -> a.v < b.v
      [] a.k = "inf" -> a.v < 0
      [] OTHER -> b.v > 0

FGt(a, b) == FLt(b, a)
FLe(a, b) == a.k # "nan" /\ b.k # "nan" /\ ~FLt(b, a)

\* f32::max: a NaN operand is ignored
FMax(a, b) ==
    IF a.k = "nan" THEN b
    ELSE IF b.k = "nan" THEN a
    ELSE IF FLt(a, b) THEN b ELSE a

\* f32::clamp(0.0, 1.0): NaN stays NaN
Clamp01(x) ==
    IF x.k = "nan" THEN x
    ELSE IF FLt(x, F(0)) THEN F(0)
    ELSE IF FGt(x, F(100)) THEN F(100)
    ELSE x

\* t / 100.0 (the numerals of the model divide exactly)
Div100(x) == IF IsFinite(x) THEN F(x.v \div 100) ELSE x

\* ------------------------------------------------------------------ tokens
\* str::parse::<f32>: the numerals the model feeds it, and their values.
\* Anything else ("", "x", "0.5x") is a parse error.
NumeralValue ==
    [s \in {"0", "0.5", "0.7", "1", "-0.5", "1.5", "50", "90", "NaN", "-inf"} |->
        CASE s = "0" -> F(0)
          [] s = "0.5" -> F(50)
          [] s = "0.7" -> F(70)
          [] s = "1" -> F(100)
          [] s = "-0.5" -> F(-50)
          [] s = "1.5" -> F(150)
          [] s = "50" -> F(5000)
          [] s = "90" -> F(9000)
          [] s = "NaN" -> NaN
          [] OTHER -> NegInf]

ParseF32(s) == IF s \in DOMAIN NumeralValue THEN Some(NumeralValue[s]) ELSE None

\* str::strip_suffix('%') on the tokens of the model that end in '%'
StripPercent ==
    [s \in {"50%", "90%", "%", "5x%"} |->
        CASE s = "50%" -> "50"
          [] s = "90%" -> "90"
          [] s = "%" -> ""
          [] OTHER -> "5x"]

parse_percent_or_float(s) ==
    IF s \in DOMAIN StripPercent
    THEN IF ParseF32(StripPercent[s]) # None
         THEN Some(Div100(ParseF32(StripPercent[s])[1]))
         ELSE None
    ELSE ParseF32(s)

\* Color: r, g, b as bytes, a as f32.
Color(r, g, b, a) == [r |-> r, g |-> g, b |-> b, a |-> a]
Black == Color(0, 0, 0, F(100))

\* str::parse::<Color>: the colour tokens the model feeds it.
\* Anything else ("stone", "#zzz") is a parse error.
ColorValue ==
    [s \in {"gold", "#ffd700", "tomato", "#0000ff80"} |->
        CASE s = "gold" -> Color(255, 215, 0, F(100))
          [] s = "#ffd700" -> Color(255, 215, 0, F(100))
          [] s = "tomato" -> Color(255, 99, 71, F(100))
          [] OTHER -> Color(0, 0, 255, F(50))]

ParseColor(s) == IF s \in DOMAIN ColorValue THEN Some(ColorValue[s]) ELSE None

\* str::trim().to_lowercase() on the keys the model uses
TrimLower(k) ==
    CASE k = "STOP-COLOR" -> "stop-color"
      [] k = " stop-opacity" -> "stop-opacity"
      [] OTHER -> k

\* A style attribute is the sequence of its ';'-separated pieces, each the
\* sequence of its ':'-separated parts ("stop-color:tomato;" is
\* << <<"stop-color", "tomato">>, <<"">> >>).
\* returns <<color, opacity>>
RECURSIVE parse_styles_from(_, _, _)
parse_styles_from(s, i, val) ==
    IF i > Len(s) THEN val
    ELSE LET d == s[i]
             key == TrimLower(d[1])
         IN parse_styles_from(s, i + 1,
              IF Len(d) = 2
              THEN CASE key = "stop-color" -> <<Some(d[2]), val[2]>>
                     [] key = "stop-opacity" -> <<val[1], Some(d[2])>>
                     [] OTHER -> val
              ELSE val)

parse_styles(s) == parse_styles_from(s, 1, <<None, None>>)

\* ------------------------------------------------------------------ records
\* SvgGradient { id, colors, pos, valid }
SvgGradient(id) == [id |-> id, colors |-> <<>>, pos |-> <<>>, valid |-> TRUE]

\* Vec::insert(0, x)
InsertFront(v, x) == <<x>> \o v

gradient_builder_as_check_last(self) ==
    IF self.colors = <<>>
    THEN [self |-> self, gb |-> None]
    ELSE LET s1 == IF FGt(self.pos[1], F(0))
                   THEN [self EXCEPT !.pos = InsertFront(self.pos, F(0)),
                                     !.colors = InsertFront(self.colors, self.colors[1])]
                   ELSE self
             last == Len(s1.colors)
             s2 == IF FLt(s1.pos[last], F(100))
                   THEN [s1 EXCEPT !.pos = Append(s1.pos, F(100)),
                                   !.colors = Append(s1.colors, s1.colors[last])]
                   ELSE s1
         IN [self |-> s2,
             gb |-> IF self.valid
                    THEN Some([colors |-> s2.colors, domain |-> s2.pos])
                    ELSE None]

gradient_builder_as_inclusive(self) ==
    IF ~self.valid \/ self.colors = <<>>
    THEN [self |-> self, gb |-> None]
    ELSE LET s1 == IF FLe(F(0), self.pos[1])
                   THEN [self EXCEPT !.pos = InsertFront(self.pos, F(0)),
                                     !.colors = InsertFront(self.colors, self.colors[1])]
                   ELSE self
             last == Len(s1.colors)
             s2 == IF FLe(s1.pos[last], F(100))
                   THEN [s1 EXCEPT !.pos = Append(s1.pos, F(100)),
                                   !.colors = Append(s1.colors, s1.colors[last])]
                   ELSE s1
         IN [self |-> s2, gb |-> Some([colors |-> s2.colors, domain |-> s2.pos])]

\* SvgGradient::gradient_builder(&mut self): the record after the call and the
\* Option<GradientBuilder> returned (a builder is its colors and its domain).
\* Rust's pos[0] and pos[last] are pos[1] and pos[last + 1] here.
gradient_builder(self) ==
    IF ~self.valid \/ self.colors = <<>>
    THEN [self |-> self, gb |-> None]
    ELSE LET s1 == IF FGt(self.pos[1], F(0))
                   THEN [self EXCEPT !.pos = InsertFront(self.pos, F(0)),
                                     !.colors = InsertFront(self.colors, self.colors[1])]
                   ELSE self
             last == Len(s1.colors)
             s2 == IF FLt(s1.pos[last], F(100))
                   THEN [s1 EXCEPT !.pos = Append(s1.pos, F(100)),
                                   !.colors = Append(s1.colors, s1.colors[last])]
                   ELSE s1
         IN [self |-> s2, gb |-> Some([colors |-> s2.colors, domain |-> s2.pos])]

\* ------------------------------------------------------------------ parse_svg
\* The locals of parse_svg before the first event. index is 0-based as in
\* the source: res[index] there is res[index + 1] here. panicked records an
\* out-of-range res[index].
InitLocals ==
    [res |-> <<>>, index |-> 0, prev_pos |-> NegInf,
     inside |-> FALSE, skip |-> FALSE, panicked |-> FALSE]

OnStart_as_document_valid(l, target_id, id) ==
    LET skip == CASE id # None /\ target_id # None -> id[1] # target_id[1]
                  [] id = None /\ target_id # None -> TRUE
                  [] OTHER -> FALSE
    IN IF skip
       THEN [l EXCEPT !.skip = TRUE]
       ELSE [l EXCEPT !.skip = FALSE,
                      !.inside = TRUE,
                      !.res = Append(l.res,
                          [SvgGradient(id) EXCEPT
                              !.valid = \A i \in 1..Len(l.res) : l.res[i].valid])]

OnStart_as_keep_without_id(l, target_id, id) ==
    LET skip == CASE id # None /\ target_id # None -> id[1] # target_id[1]
                  [] OTHER -> FALSE
    IN IF skip
       THEN [l EXCEPT !.skip = TRUE]
       ELSE [l EXCEPT !.skip = FALSE,
                      !.inside = TRUE,
                      !.res = Append(l.res, SvgGradient(id))]

\* Event::Tag(LinearGradient | RadialGradient, Type::Start, attributes)
OnStart(l, target_id, id) ==
    LET skip == CASE id # None /\ target_id # None -> id[1] # target_id[1]
                  [] id = None /\ target_id # None -> TRUE
                  [] OTHER -> FALSE
    IN IF skip
       THEN [l EXCEPT !.skip = TRUE]
       ELSE [l EXCEPT !.skip = FALSE,
                      !.inside = TRUE,
                      !.res = Append(l.res, SvgGradient(id))]

OnEnd_as_always_advance(l) ==
    [l EXCEPT !.index = l.index + 1,
              !.inside = FALSE,
              !.prev_pos = NegInf]

OnEnd_as_keep_prev_pos(l) ==
    [l EXCEPT !.index = IF l.inside /\ ~l.skip THEN l.index + 1 ELSE l.index,
              !.inside = FALSE]

OnEnd_as_revalidate(l) ==
    [l EXCEPT !.index = IF l.inside /\ ~l.skip THEN l.index + 1 ELSE l.index,
              !.inside = FALSE,
              !.prev_pos = NegInf,
              !.res = [i \in 1..Len(l.res) |-> [l.res[i] EXCEPT !.valid = TRUE]]]

\* Event::Tag(LinearGradient | RadialGradient, Type::End, _)
OnEnd(l) ==
    [l EXCEPT !.index = IF l.inside /\ ~l.skip THEN l.index + 1 ELSE l.index,
              !.inside = FALSE,
              !.prev_pos = NegInf]

Invalidate_as_defaulted_slot(l) ==
    IF l.index + 1 > Len(l.res)
    THEN [l EXCEPT !.panicked = TRUE]
    ELSE [l EXCEPT !.res[l.index + 1].valid = FALSE,
                   !.res[l.index + 1].colors = Append(@, Black),
                   !.res[l.index + 1].pos = Append(@, F(0))]

\* res[index].valid = false; continue
Invalidate(l) ==
    IF l.index + 1 > Len(l.res)
    THEN [l EXCEPT !.panicked = TRUE]
    ELSE [l EXCEPT !.res[l.index + 1].valid = FALSE]

StopPaint_as_attribute_first(attributes) ==
    LET a_col == attributes.stop_color
        a_opc == attributes.stop_opacity
        st == IF attributes.style # None
              THEN parse_styles(attributes.style[1])
              ELSE <<None, None>>
        col == IF a_col # None THEN a_col ELSE st[1]
        opc == IF a_opc # None THEN a_opc ELSE st[2]
    IN IF \/ a_col # None /\ ParseColor(a_col[1]) = None
          \/ a_opc # None /\ parse_percent_or_float(a_opc[1]) = None
          \/ st[1] # None /\ ParseColor(st[1][1]) = None
          \/ st[2] # None /\ parse_percent_or_float(st[2][1]) = None
       THEN <<TRUE, None, None>>
       ELSE <<FALSE,
              IF col # None THEN ParseColor(col[1]) ELSE None,
              IF opc # None THEN parse_percent_or_float(opc[1]) ELSE None>>

\* lines 109-146: the colour and the opacity of a stop, <<failed, color, opacity>>.
\* The attributes are read first and what the style holds is assigned over them.
StopPaint(attributes) ==
    LET a_col == attributes.stop_color
        a_opc == attributes.stop_opacity
        bad1 == a_col # None /\ ParseColor(a_col[1]) = None
        color1 == IF a_col # None THEN ParseColor(a_col[1]) ELSE None
        bad2 == a_opc # None /\ parse_percent_or_float(a_opc[1]) = None
        opacity1 == IF a_opc # None THEN parse_percent_or_float(a_opc[1]) ELSE None
        st == IF attributes.style # None
              THEN parse_styles(attributes.style[1])
              ELSE <<None, None>>
        bad3 == st[1] # None /\ ParseColor(st[1][1]) = None
        color2 == IF st[1] # None THEN ParseColor(st[1][1]) ELSE color1
        bad4 == st[2] # None /\ parse_percent_or_float(st[2][1]) = None
        opacity2 == IF st[2] # None THEN parse_percent_or_float(st[2][1]) ELSE opacity1
    IN IF bad1 \/ bad2 \/ bad3 \/ bad4
       THEN <<TRUE, None, None>>
       ELSE <<FALSE, color2, opacity2>>

\* lines 148-156: the offset of a stop, <<failed, offset>>
StopOffset(attributes) ==
    IF attributes.offset # None
    THEN LET of == parse_percent_or_float(attributes.offset[1])
         IN IF of = None THEN <<TRUE, None>> ELSE <<FALSE, of>>
    ELSE <<FALSE, None>>

\* lines 109-175: a stop tag that line 105 let through
StoreStop(l, attributes) ==
    LET paint == StopPaint(attributes)
        off == StopOffset(attributes)
    IN IF paint[1] \/ off[1]
       THEN Invalidate(l)
       ELSE LET color0 == IF paint[2] # None THEN paint[2][1] ELSE Black
                offset == IF off[2] # None THEN off[2][1] ELSE l.prev_pos
                color == IF paint[3] # None
                         THEN Color(color0.r, color0.g, color0.b, Clamp01(paint[3][1]))
                         ELSE color0
                new_pos == IF IsFinite(offset)
                           THEN FMax(offset, l.prev_pos)
                           ELSE F(0)
            IN IF l.index + 1 > Len(l.res)
               THEN [l EXCEPT !.panicked = TRUE]
               ELSE [l EXCEPT !.prev_pos = new_pos,
                              !.res[l.index + 1].colors = Append(@, color),
                              !.res[l.index + 1].pos = Append(@, new_pos)]

OnStop_as_stop_when_invalid(l, attributes) ==
    IF ~l.inside \/ l.skip \/ l.res = <<>>
    THEN l
    ELSE IF l.index + 1 <= Len(l.res) /\ ~l.res[l.index + 1].valid
         THEN l
         ELSE StoreStop(l, attributes)

OnStop_as_orphans_stored(l, attributes) ==
    IF l.skip \/ l.res = <<>>
    THEN l
    ELSE StoreStop(l, attributes)

\* Event::Tag(Stop, _, attributes)
OnStop(l, attributes) ==
    IF ~l.inside \/ l.skip \/ l.res = <<>>
    THEN l
    ELSE StoreStop(l, attributes)

\* ------------------------------------------------------------------ input
\* The arms of parse_svg take linearGradient and radialGradient tags
\* together: "gradient" is a tag of either name.
Ids == {None, Some("a"), Some("b")}
Targets == {None, Some("a")}

NoAttributes ==
    [stop_color |-> None, stop_opacity |-> None, style |-> None, offset |-> None]

Offsets ==
    {None} \cup {Some(t) : t \in {"0", "50%", "1", "1.5", "NaN", "x"}}

\* Stop tags that differ in their offset: each offset without a colour, and
\* a coloured stop without an offset.
OffsetStops ==
    {[NoAttributes EXCEPT !.offset = o] : o \in Offsets}
    \cup
    {[NoAttributes EXCEPT !.stop_color = Some("gold")]}

StyleColor == << <<"stop-color", "tomato">>, <<"">> >>
StyleBoth == << <<"STOP-COLOR", "tomato">>, <<" stop-opacity", "90%">> >>
StyleBadColor == << <<"stop-color", "#zzz">>, <<"">> >>
StyleBadOpacity == << <<"stop-opacity", "%">>, <<"stop-color", "url(a", "b)">> >>

Paint(c, p, y) == [NoAttributes EXCEPT !.stop_color = c, !.stop_opacity = p, !.style = y]

\* Stop tags that differ in their paint: the colour and opacity attributes,
\* each style, alone and beside the attributes it competes with, and a bad
\* offset.
PaintStops ==
    {Paint(None, None, None),
     Paint(Some("gold"), None, None),
     Paint(Some("#ffd700"), None, None),
     Paint(Some("#0000ff80"), None, None),
     Paint(Some("stone"), None, None),
     Paint(Some("#0000ff80"), Some("0.5"), None),
     Paint(None, Some("0.5x"), None)}
    \cup
    {Paint(None, None, Some(StyleColor)),
     Paint(None, None, Some(StyleBoth)),
     Paint(None, None, Some(StyleBadColor)),
     Paint(None, None, Some(StyleBadOpacity)),
     Paint(Some("gold"), None, Some(StyleColor)),
     Paint(Some("gold"), Some("0.5"), Some(StyleBoth)),
     Paint(Some("stone"), None, Some(StyleColor))}
    \cup
    {[NoAttributes EXCEPT !.stop_color = Some("gold"), !.offset = Some("x")]}

\* ------------------------------------------------------------------ state
VARIABLES
    target_id,  \* parse_svg's argument
    res, index, prev_pos, inside, skip,  \* parse_svg's locals
    panicked,   \* res[index] was out of range
    last_stop,  \* the attributes of the stop tag read last
    pc,         \* "reading" the events, or "done": parse_svg has returned
    nread,      \* gradient start tags, gradient end tags and stop tags read
    nstops,     \* stop tags read
    builders,   \* per record: what its last gradient_builder call returned
    cursor,     \* the record the caller of parse_svg is at (0: none yet)
    calls,      \* gradient_builder calls made on res[cursor]
    open,       \* history: a gradient element is open
    nesting,    \* history: a gradient element was opened inside another
    solo,       \* history: the locals of an unfiltered parse_svg that began at
                \* the last gradient start tag
    alone,      \* history, per gradient start tag: the record solo built for it
    tally       \* history, per record: stop tags handled while it was res[index]

\* The state of the command-line program (main.rs); parse_svg above is the
\* library it sits on, and each is explored on its own.
VARIABLES
    opt,        \* the parsed command line (Opt)
    env,        \* the terminal, the files and the pipe the process runs with
    ga,         \* the GradientApp: cfg and output_mode
    out,        \* what was written to standard output, one write per entry
    errs,       \* what was written to the error stream
    ret,        \* what GradientApp::run returned: None while it runs
    exit_code,  \* the status the process exited with: None while it runs
    apc,        \* where main is: "off", "new", "run", "files", "main", "exited"
    fi          \* file_gradient: the files of opt.file taken so far

\* The state of the command-line parser (cli.rs) and of the colour helpers
\* (util.rs), each explored on its own as well.
VARIABLES
    args,       \* the command line: the options in order, each with its values
    argi,       \* parse_args: the options taken so far
    popt,       \* parse_args: the Opt it fills
    pres,       \* what parse_args came to: None while it loops
    ufg,        \* blend_color, blend_on: the colour fg refers to
    ubg,        \* blend_color, blend_on: the colour bg refers to
    ublend,     \* what blend_color returned: None before the call
    upc         \* the calls made on ufg and ubg, in order

svgvars ==
    <<target_id, res, index, prev_pos, inside, skip, panicked, last_stop, pc, nread,
      nstops, builders, cursor, calls, open, nesting, solo, alone, tally>>

appvars == <<opt, env, ga, out, errs, ret, exit_code, apc, fi>>

clivars == <<args, argi, popt, pres>>

utilvars == <<ufg, ubg, ublend, upc>>

vars == <<svgvars, appvars, clivars, utilvars>>

\* parse_args has not been started, and no colour helper is called
ToolsOff ==
    /\ args = <<>>
    /\ argi = 0
    /\ popt = None
    /\ pres = None
    /\ ufg = None
    /\ ubg = None
    /\ ublend = None
    /\ upc = <<>>

\* main has not been started
AppOff ==
    /\ opt = None
    /\ env = None
    /\ ga = None
    /\ out = <<>>
    /\ errs = <<>>
    /\ ret = None
    /\ exit_code = None
    /\ apc = "off"
    /\ fi = 0

Locals ==
    [res |-> res, index |-> index, prev_pos |-> prev_pos,
     inside |-> inside, skip |-> skip, panicked |-> panicked]

SetLocals(l) ==
    /\ res' = l.res
    /\ index' = l.index
    /\ prev_pos' = l.prev_pos
    /\ inside' = l.inside
    /\ skip' = l.skip
    /\ panicked' = l.panicked

Init ==
    /\ target_id \in Targets
    /\ res = <<>>
    /\ index = 0
    /\ prev_pos = NegInf
    /\ inside = FALSE
    /\ skip = FALSE
    /\ panicked = FALSE
    /\ last_stop = NoAttributes
    /\ pc = "reading"
    /\ nread = 0
    /\ nstops = 0
    /\ builders = <<>>
    /\ cursor = 0
    /\ calls = 0
    /\ open = FALSE
    /\ nesting = FALSE
    /\ solo = InitLocals
    /\ alone = <<>>
    /\ tally = <<>>
    /\ AppOff
    /\ ToolsOff

\* A present attribute of the stop tag does not parse.
BadToken(attributes) ==
    LET st == IF attributes.style # None
              THEN parse_styles(attributes.style[1])
              ELSE <<None, None>>
    IN \/ attributes.stop_color # None /\ ParseColor(attributes.stop_color[1]) = None
       \/ attributes.stop_opacity # None
            /\ parse_percent_or_float(attributes.stop_opacity[1]) = None
       \/ st[1] # None /\ ParseColor(st[1][1]) = None
       \/ st[2] # None /\ parse_percent_or_float(st[2][1]) = None
       \/ attributes.offset # None /\ parse_percent_or_float(attributes.offset[1]) = None

NoTally == [seen |-> 0, unparsable |-> 0, late |-> 0]

\* The stop tag is handled (line 105 lets it through) while res[index] is the
\* active record: count it, and whether it is unparsable or arrives after
\* the record was marked invalid.
TallyStop(attributes) ==
    IF inside /\ ~skip /\ index + 1 <= Len(res)
    THEN [tally EXCEPT ![index + 1] =
            [seen |-> @.seen + 1,
             unparsable |-> @.unparsable + (IF BadToken(attributes) THEN 1 ELSE 0),
             late |-> @.late + (IF res[index + 1].valid THEN 0 ELSE 1)]]
    ELSE tally

Read ==
    /\ pc = "reading"
    /\ nread < MaxEvents
    /\ nread' = nread + 1
    /\ UNCHANGED <<target_id, pc, cursor, calls, appvars, clivars, utilvars>>

\* <linearGradient ...> or <radialGradient ...>
StartTag ==
    \E id \in Ids :
        LET l == OnStart(Locals, target_id, id)
            pushed == Len(l.res) > Len(res)
        IN /\ Read
           /\ SetLocals(l)
           /\ builders' = IF pushed THEN Append(builders, None) ELSE builders
           /\ tally' = IF pushed THEN Append(tally, NoTally) ELSE tally
           /\ open' = TRUE
           /\ nesting' = (nesting \/ open)
           /\ solo' = OnStart(InitLocals, None, id)
           /\ alone' = Append(alone, SvgGradient(id))
           /\ UNCHANGED <<nstops, last_stop>>

\* </linearGradient> or </radialGradient>
EndTag ==
    /\ Read
    /\ SetLocals(OnEnd(Locals))
    /\ open' = FALSE
    /\ solo' = OnEnd(solo)
    /\ UNCHANGED <<nstops, last_stop, builders, nesting, alone, tally>>

\* <linearGradient ... /> or <radialGradient ... />: the arm is empty
EmptyTag ==
    /\ pc = "reading"
    /\ UNCHANGED vars

\* <stop ... />; the arm does not look at the type of the tag
StopTag(stops) ==
    \E attributes \in stops :
        /\ nstops < MaxStops
        /\ Read
        /\ last_stop' = attributes
        /\ SetLocals(OnStop(Locals, attributes))
        /\ nstops' = nstops + 1
        /\ tally' = TallyStop(attributes)
        /\ solo' = OnStop(solo, attributes)
        /\ alone' = IF alone # <<>>
                    THEN [alone EXCEPT ![Len(alone)] = OnStop(solo, attributes).res[1]]
                    ELSE alone
        /\ UNCHANGED <<builders, open, nesting>>

\* any other event (another tag, text, a comment, an error): the arm is empty
OtherEvent ==
    /\ pc = "reading"
    /\ UNCHANGED vars

\* The events are exhausted: parse_svg returns res, its other locals go out
\* of scope, and its caller starts at the first record.
Return ==
    /\ pc = "reading"
    /\ pc' = "done"
    /\ index' = 0
    /\ prev_pos' = NegInf
    /\ inside' = FALSE
    /\ skip' = FALSE
    /\ last_stop' = NoAttributes
    /\ solo' = InitLocals
    /\ cursor' = 1
    /\ UNCHANGED <<target_id, res, panicked, nread, nstops, builders, calls,
                   open, nesting, alone, tally, appvars, clivars, utilvars>>

\* The caller calls res[cursor].gradient_builder(). gradient_builder reads
\* and writes its own record only, so the caller of the model takes the
\* records in order and calls each one or more times; calls counts up to
\* "twice or more".
CallGradientBuilder ==
    /\ pc = "done"
    /\ cursor \in 1..Len(res)
    /\ LET r == gradient_builder(res[cursor])
       IN /\ res' = [res EXCEPT ![cursor] = r.self]
          /\ builders' = [builders EXCEPT ![cursor] = r.gb]
    /\ calls' = IF calls < 2 THEN calls + 1 ELSE calls
    /\ UNCHANGED <<target_id, index, prev_pos, inside, skip, panicked, last_stop, pc,
                   nread, nstops, cursor, open, nesting, solo, alone, tally, appvars, clivars, utilvars>>

\* the caller goes on to the next record
NextRecord ==
    /\ pc = "done"
    /\ cursor \in 1..Len(res)
    /\ calls >= 1
    /\ cursor' = cursor + 1
    /\ calls' = 0
    /\ UNCHANGED <<target_id, res, index, prev_pos, inside, skip, panicked, last_stop, pc,
                   nread, nstops, builders, open, nesting, solo, alone, tally, appvars, clivars, utilvars>>

\* gradient_builder was called on res[i]
Called(i) == i < cursor \/ (i = cursor /\ calls >= 1)

\* The extractor and its caller, on documents whose stops differ in offset.
Next ==
    \/ StartTag
    \/ EndTag
    \/ EmptyTag
    \/ StopTag(OffsetStops)
    \/ OtherEvent
    \/ Return
    \/ CallGradientBuilder
    \/ NextRecord

Spec == Init /\ [][Next]_vars

\* The extractor alone, on documents whose stops differ in paint.
NextPaint ==
    \/ StartTag
    \/ EndTag
    \/ EmptyTag
    \/ StopTag(PaintStops)
    \/ OtherEvent
    \/ Return

SpecPaint == Init /\ [][NextPaint]_vars

\* ------------------------------------------------------------------ main.rs
\* f64 colour channels and alphas are counted in ten-thousandths, so that
\* one blend of colours given in hundredths is exact.
Rgba(r, g, b, a) == [r |-> 100 * r, g |-> 100 * g, b |-> 100 * b, a |-> 100 * a]

\* Color::from_rgb: an opaque colour
from_rgb(r, g, b) == [r |-> r, g |-> g, b |-> b, a |-> 100 * 100]

\* fn blend(color, bg): source-over compositing, the result opaque
blend(color, bg) ==
    from_rgb((((100 * 100) - color.a) * bg.r + color.a * color.r) \div (100 * 100),
             (((100 * 100) - color.a) * bg.g + color.a * color.g) \div (100 * 100),
             (((100 * 100) - color.a) * bg.b + color.a * color.b) \div (100 * 100))

\* Color::rgba_u8: each channel times 255, rounded
U8(x) == (x * 255 + 50 * 100) \div (100 * 100)
rgba_u8(col) == <<U8(col.r), U8(col.g), U8(col.b), U8(col.a)>>

\* fn format_alpha: ",{:.2}%" of a * 100, or nothing when that starts with
\* ",100"; the text is kept as the number it prints, in hundredths of a percent
format_alpha(a) == IF a \div 100 = 100 THEN <<>> ELSE <<a>>

\* Color::to_hex_string: #rrggbb, or #rrggbbaa when the alpha byte is below 255
to_hex_string(col) ==
    LET c == rgba_u8(col)
    IN [format |-> "Hex",
        v |-> IF c[4] < 255 THEN c ELSE <<c[1], c[2], c[3]>>]

OutputColors == {"Hex", "Rgb", "Rgb255"}

\* fn format_color, for the formats that need no change of colour space. A
\* formatted colour is kept as its format and the numbers it prints:
\* percentages in hundredths of a percent, bytes as they are.
format_color(col, format) ==
    CASE format = "Hex" -> to_hex_string(col)
      [] format = "Rgb" ->
            [format |-> "Rgb", v |-> <<col.r, col.g, col.b>> \o format_alpha(col.a)]
      [] format = "Rgb255" ->
            [format |-> "Rgb255",
             v |-> <<rgba_u8(col)[1], rgba_u8(col)[2], rgba_u8(col)[3]>>
                        \o format_alpha(col.a)]

\* the decimal digits of n
Digits(n) == IF n < 10 THEN 1 ELSE IF n < 100 THEN 2 ELSE 3

\* String::len of a formatted colour: "#rrggbb", "rgb(100.00%,0.00%,0.00%,50.00%)",
\* "rgb(255,0,0,50.00%)"
len(s) ==
    LET pct(x) == Digits(x \div 100) + 4
        alpha == IF Len(s.v) = 4 THEN 1 + pct(s.v[4]) ELSE 0
    IN CASE s.format = "Hex" -> 1 + 2 * Len(s.v)
         [] s.format = "Rgb" -> 4 + pct(s.v[1]) + 1 + pct(s.v[2]) + 1 + pct(s.v[3]) + alpha + 1
         [] s.format = "Rgb255" ->
                4 + Digits(s.v[1]) + 1 + Digits(s.v[2]) + 1 + Digits(s.v[3]) + alpha + 1

\* fn remap: t from [a, b] to [c, d], as the fraction <<numerator, denominator>>
remap(t, a, b, c, d) == <<(t - a) * (d - c) + c * (b - a), b - a>>

\* colorgrad::Gradient, a handle of the gradient library: its domain and two
\* colours, lo on the lower half of the domain and below it, hi on the rest.
Gradient(dmin, dmax, lo, hi) == [domain |-> <<dmin, dmax>>, lo |-> lo, hi |-> hi]

\* Gradient::at, t being a fraction <<numerator, denominator>>
at(grad, t) ==
    IF 2 * (t[1] - grad.domain[1] * t[2]) < (grad.domain[2] - grad.domain[1]) * t[2]
    THEN grad.lo
    ELSE grad.hi

\* Gradient::colors(n): n colours evenly spaced over the domain
colors(grad, n) ==
    [i \in 1..n |->
        IF n = 1
        THEN at(grad, <<grad.domain[1], 1>>)
        ELSE at(grad, <<grad.domain[1] * (n - 1)
                            + (i - 1) * (grad.domain[2] - grad.domain[1]),
                        n - 1>>)]

Max(a, b) == IF a > b THEN a ELSE b
Min(a, b) == IF a < b THEN a ELSE b
unwrap_or(o, d) == IF o = None THEN d ELSE o[1]

GradientApp_new_as_min_then_max(o, e) ==
    LET term_width == e.term
    IN [cfg |->
          [is_stdout |-> e.tty,
           use_solid_bg |-> o.background # None,
           background |-> unwrap_or(o.background, from_rgb(0, 0, 0)),
           cb_color |-> unwrap_or(o.cb_color,
                            <<from_rgb(500, 500, 500), from_rgb(2000, 2000, 2000)>>),
           term_width |-> unwrap_or(term_width, 80),
           width |-> Max(Min(unwrap_or(o.width, unwrap_or(term_width, 80)),
                             unwrap_or(term_width, 1000)),
                         10),
           height |-> Min(Max(unwrap_or(o.height, 2), 1), 50),
           output_format |-> unwrap_or(o.format, "Hex")],
        output_mode |-> IF o.take # None THEN "ColorsN"
                        ELSE IF o.sample # None THEN "ColorsSample"
                        ELSE "Gradient"]

\* GradientApp::new: cfg and output_mode from the options, the terminal size
\* (e.term: None when it is not detected) and whether stdout is a terminal
GradientApp_new(o, e) ==
    LET term_width == e.term
    IN [cfg |->
          [is_stdout |-> e.tty,
           use_solid_bg |-> o.background # None,
           background |-> unwrap_or(o.background, from_rgb(0, 0, 0)),
           cb_color |-> unwrap_or(o.cb_color,
                            <<from_rgb(500, 500, 500), from_rgb(2000, 2000, 2000)>>),
           term_width |-> unwrap_or(term_width, 80),
           width |-> Min(Max(unwrap_or(o.width, unwrap_or(term_width, 80)), 10),
                         unwrap_or(term_width, 1000)),
           height |-> Min(Max(unwrap_or(o.height, 2), 1), 50),
           output_format |-> unwrap_or(o.format, "Hex")],
        output_mode |-> IF o.take # None THEN "ColorsN"
                        ELSE IF o.sample # None THEN "ColorsSample"
                        ELSE "Gradient"]

\* One write to a stream: what is written (w), its text (t), the numbers of
\* its escape sequence (v) and the formatted colours it holds (s).
Item(w, t, v, s) == [w |-> w, t |-> t, v |-> v, s |-> s]

bg_color_as_square_tiles(cfg, x, y) ==
    IF cfg.use_solid_bg
    THEN cfg.background
    ELSE IF ((x % 2) + (y % 2)) % 2 = 0
         THEN cfg.cb_color[1]
         ELSE cfg.cb_color[2]

\* display_gradient, lines 527-533: the background of the cell at (x, y);
\* n & 1 is n % 2, and a ^ b on two bits is (a + b) % 2
bg_color(cfg, x, y) ==
    IF cfg.use_solid_bg
    THEN cfg.background
    ELSE IF (((x \div 2) % 2) + (y % 2)) % 2 = 0
         THEN cfg.cb_color[1]
         ELSE cfg.cb_color[2]

Cell_as_right_on_left(cfg, grad, x, y) ==
    LET w2 == cfg.width * 2 - 1
        col_l == at(grad, remap(2 * x, 0, w2, grad.domain[1], grad.domain[2]))
        col_r == at(grad, remap(2 * x + 1, 0, w2, grad.domain[1], grad.domain[2]))
        l == rgba_u8(blend(col_l, bg_color(cfg, x, y)))
        r == rgba_u8(blend(col_r, bg_color(cfg, x, y)))
    IN Item("cell", "", <<r[1], r[2], r[3], l[1], l[2], l[3]>>, <<>>)

\* display_gradient, lines 535-548: the write of the cell at (x, y), the
\* numbers of its escape sequence
Cell(cfg, grad, x, y) ==
    LET w2 == cfg.width * 2 - 1
        col_l == at(grad, remap(2 * x, 0, w2, grad.domain[1], grad.domain[2]))
        col_r == at(grad, remap(2 * x + 1, 0, w2, grad.domain[1], grad.domain[2]))
        l == rgba_u8(blend(col_l, bg_color(cfg, x, y)))
        r == rgba_u8(blend(col_r, bg_color(cfg, x, y)))
    IN Item("cell", "", <<l[1], l[2], l[3], r[1], r[2], r[3]>>, <<>>)

\* writeln!(self.stdout, "\x1B[39;49m")
RowEnd == Item("reset", "", <<>>, <<>>)

\* fn display_gradient: the writes it makes, in order: for each row its
\* cells and the reset that ends the line
display_gradient(cfg, grad) ==
    [k \in 1..(cfg.height * (cfg.width + 1)) |->
        LET y == (k - 1) \div (cfg.width + 1)
            x == (k - 1) % (cfg.width + 1)
        IN IF x = cfg.width THEN RowEnd ELSE Cell(cfg, grad, x, y)]

\* fn lum of color_luminance, in ten-thousandths: t / 12.92 up to 0.03928 and
\* ((t + 0.055) / 1.055)^2.4 above, exact (to four places) at 0, 0.25, 0.5,
\* 0.75 and 1 and read off the chord in between
lum(t) ==
    LET knot == <<0, 509, 2140, 5225, 100 * 100>>
        k == t \div 2500
    IN IF k >= 4
       THEN knot[5]
       ELSE knot[k + 1] + ((knot[k + 2] - knot[k + 1]) * (t - 2500 * k)) \div 2500

\* fn color_luminance, in units of 10^-8
color_luminance(col) == 2126 * lum(col.r) + 7152 * lum(col.g) + 722 * lum(col.b)

Swatch_as_dark_on_dark(cfg, col) ==
    LET shown(c, bg) ==
            LET s == format_color(c, cfg.output_format)
                fg == IF color_luminance(bg) < 3000 * (100 * 100)
                      THEN <<0, 0, 0>>
                      ELSE <<255, 255, 255>>
            IN Item("swatch", "", fg \o SubSeq(rgba_u8(bg), 1, 3), <<s>>)
    IN IF cfg.use_solid_bg
       THEN shown(blend(col, cfg.background), blend(col, cfg.background))
       ELSE shown(col, blend(col, from_rgb(0, 0, 0)))

\* display_colors, lines 574-600: the write of one swatch
Swatch(cfg, col) ==
    LET shown(c, bg) ==
            LET s == format_color(c, cfg.output_format)
                fg == IF color_luminance(bg) < 3000 * (100 * 100)
                      THEN <<255, 255, 255>>
                      ELSE <<0, 0, 0>>
            IN Item("swatch", "", fg \o SubSeq(rgba_u8(bg), 1, 3), <<s>>)
    IN IF cfg.use_solid_bg
       THEN shown(blend(col, cfg.background), blend(col, cfg.background))
       ELSE shown(col, blend(col, from_rgb(0, 0, 0)))

Newline == Item("\n", "", <<>>, <<>>)
Space == Item(" ", "", <<>>, <<>>)

\* display_colors, lines 571-610: the loop over the colours from colour i on,
\* st being the writes made so far, the width left on the line and whether
\* width -= s.len() went below zero. usize wraps there in a build without
\* overflow checks and panics in one with them (e.overflow_checks). usize
\* wraps modulo 2^64 in the code and modulo 2^30 here, where integers have 32
\* bits: the loop only compares the result with string lengths and
\* subtracts from it, which comes out the same for both.
RECURSIVE swatches(_, _, _, _, _)
swatches(cfg, e, cols, i, st) ==
    IF i > Len(cols) \/ st.panic
    THEN st
    ELSE LET put(sw, width1, ws0) ==
                LET n == len(sw.s[1])
                    ws1 == Append(ws0, sw)
                    under == width1 < n
                    width2 == IF under THEN width1 - n + 2^30
                              ELSE width1 - n
                IN IF under /\ e.overflow_checks
                   THEN [ws |-> ws1, width |-> width1, panic |-> TRUE]
                   ELSE swatches(cfg, e, cols, i + 1,
                            [ws |-> IF width2 >= 1 THEN Append(ws1, Space) ELSE ws1,
                             width |-> IF width2 >= 1 THEN width2 - 1 ELSE width2,
                             panic |-> FALSE])
             line(sw) ==
                IF st.width < len(sw.s[1])
                THEN put(sw, cfg.term_width, Append(st.ws, Newline))
                ELSE put(sw, st.width, st.ws)
         IN line(Swatch(cfg, cols[i]))

display_colors_as_swatches_first(cfg, o, e, cols) ==
    IF cfg.is_stdout
    THEN LET done(st) == [ws |-> IF st.panic THEN st.ws ELSE Append(st.ws, Newline),
                          panic |-> st.panic]
         IN done(swatches(cfg, e, cols, 1,
                    [ws |-> <<>>, width |-> cfg.term_width, panic |-> FALSE]))
    ELSE [ws |-> <<Item("array", "", <<>>,
                        [i \in 1..Len(cols) |->
                            format_color(IF cfg.use_solid_bg
                                         THEN blend(cols[i], cfg.background)
                                         ELSE cols[i],
                                         cfg.output_format)])>>,
          panic |-> FALSE]

display_colors_as_plain_sorted(cfg, o, e, cols) ==
    IF o.array
    THEN [ws |-> <<Item("array", "", <<>>,
                        [i \in 1..Len(cols) |->
                            format_color(IF cfg.use_solid_bg
                                         THEN blend(cols[i], cfg.background)
                                         ELSE cols[i],
                                         cfg.output_format)])>>,
          panic |-> FALSE]
    ELSE IF cfg.is_stdout
    THEN LET done(st) == [ws |-> IF st.panic THEN st.ws ELSE Append(st.ws, Newline),
                          panic |-> st.panic]
         IN done(swatches(cfg, e, cols, 1,
                    [ws |-> <<>>, width |-> cfg.term_width, panic |-> FALSE]))
    ELSE [ws |-> [i \in 1..Len(cols) |->
                    Item("line", "", <<>>,
                         <<format_color(IF cfg.use_solid_bg
                                        THEN blend(cols[Len(cols) + 1 - i], cfg.background)
                                        ELSE cols[Len(cols) + 1 - i],
                                        cfg.output_format)>>)],
          panic |-> FALSE]

\* fn display_colors: the writes it makes, in order, and whether it panicked
\* after them. Array: one line, the list of the formatted colours; on a
\* terminal: swatches; else one formatted colour per line.
display_colors(cfg, o, e, cols) ==
    IF o.array
    THEN [ws |-> <<Item("array", "", <<>>,
                        [i \in 1..Len(cols) |->
                            format_color(IF cfg.use_solid_bg
                                         THEN blend(cols[i], cfg.background)
                                         ELSE cols[i],
                                         cfg.output_format)])>>,
          panic |-> FALSE]
    ELSE IF cfg.is_stdout
    THEN LET done(st) == [ws |-> IF st.panic THEN st.ws ELSE Append(st.ws, Newline),
                          panic |-> st.panic]
         IN done(swatches(cfg, e, cols, 1,
                    [ws |-> <<>>, width |-> cfg.term_width, panic |-> FALSE]))
    ELSE [ws |-> [i \in 1..Len(cols) |->
                    Item("line", "", <<>>,
                         <<format_color(IF cfg.use_solid_bg
                                        THEN blend(cols[i], cfg.background)
                                        ELSE cols[i],
                                        cfg.output_format)>>)],
          panic |-> FALSE]

\* fn handle_output: the gradient as a block, n colours evenly spaced, or
\* the colours at the positions asked for, in the order asked
handle_output(g, o, e, grad) ==
    CASE g.output_mode = "Gradient" ->
            [ws |-> display_gradient(g.cfg, grad), panic |-> FALSE]
      [] g.output_mode = "ColorsN" ->
            display_colors(g.cfg, o, e, colors(grad, o.take[1]))
      [] g.output_mode = "ColorsSample" ->
            display_colors(g.cfg, o, e,
                [i \in 1..Len(o.sample[1]) |-> at(grad, o.sample[1][i])])

\* ------------------------------------------------------------------ main.rs: input
\* Opt, the fields GradientApp reads itself (blend_mode, interpolation,
\* ggr_bg and ggr_fg go to the gradient library as they are)
NoOpt ==
    [list_presets |-> FALSE, preset |-> None, custom |-> None, position |-> None,
     file |-> None, svg_id |-> None, width |-> None, height |-> None,
     background |-> None, cb_color |-> None, take |-> None, sample |-> None,
     format |-> None, array |-> FALSE]

Red == Rgba(100, 0, 0, 100)
Blue == Rgba(0, 0, 100, 100)
Clear == Rgba(0, 100, 0, 0)
HalfRed == Rgba(100, 0, 0, 50)
Grey == Rgba(50, 50, 50, 100)
White == Rgba(100, 100, 100, 100)

\* --preset NAME: a preset of the library, under its name lowercased and
\* with "-" replaced by "_", or no preset of that name
PresetKey == [n \in {"magma", "Rd-Bu", "sunset"} |->
                CASE n = "magma" -> "magma" [] n = "Rd-Bu" -> "rd_bu" [] OTHER -> "sunset"]
PresetGradients ==
    [k \in {"magma", "rd_bu"} |->
        IF k = "magma" THEN Gradient(0, 1, Grey, White) ELSE Gradient(0, 1, Red, Blue)]

\* CustomGradient::build of the library: an error when the positions do not
\* pair with the colours or decrease, else a gradient over the positions
build(cols, pos) ==
    IF pos # None /\ (Len(pos[1]) # Len(cols)
                        \/ \E i \in 1..(Len(pos[1]) - 1) : pos[1][i] > pos[1][i + 1])
    THEN None
    ELSE Some(Gradient(IF pos = None THEN 0 ELSE pos[1][1],
                       IF pos = None THEN 1 ELSE pos[1][Len(pos[1])],
                       cols[1], cols[Len(cols)]))

\* The files of the working directory: what is at each path. A gradient
\* file of the library (.ggr) is missing, fails to parse or holds a
\* gradient and its name; a markup file holds the gradients parse_svg
\* returns for it, each with its id.
Paths ==
    {"missing.ggr", "invalid.ggr", "Neon_Green.GGR", "gradients.svg", "no-gradient.svg",
     "Cargo.toml", "Makefile"}

extension == [p \in Paths |->
    CASE p \in {"missing.ggr", "invalid.ggr"} -> Some("ggr")
      [] p = "Neon_Green.GGR" -> Some("GGR")
      [] p \in {"gradients.svg", "no-gradient.svg"} -> Some("svg")
      [] p = "Cargo.toml" -> Some("toml")
      [] OTHER -> None]

to_lowercase == [x \in {"ggr", "GGR", "svg", "toml"} |-> IF x = "GGR" THEN "ggr" ELSE x]

\* File::open(&path)
FileExists(p) == p # "missing.ggr"

\* colorgrad::parse_ggr on the file: Ok((grad, name)) or Err(err)
parse_ggr(p) == IF p = "invalid.ggr" THEN None ELSE Some(Gradient(0, 1, HalfRed, Blue))

\* parse_svg(path) as main.rs calls it: the (gradient, id) pairs of the file
parse_svg_file(p) ==
    IF p = "gradients.svg"
    THEN << <<Gradient(0, 1, Clear, Red), None>>,
            <<Gradient(0, 1, Red, Blue), Some("a")>>,
            <<Gradient(0, 1, HalfRed, White), Some("b")>> >>
    ELSE <<>>

FileLists ==
    {<<p>> : p \in Paths}
    \cup {<<p, "Neon_Green.GGR">> : p \in Paths \ {"Neon_Green.GGR"}}
    \cup {<<"Neon_Green.GGR", "gradients.svg">>}

\* The gradient sources of a command line
Sources ==
    {[NoOpt EXCEPT !.list_presets = TRUE], NoOpt}
    \cup {[NoOpt EXCEPT !.preset = Some(n)] : n \in DOMAIN PresetKey}
    \cup {[NoOpt EXCEPT !.custom = Some(<<HalfRed, Blue>>), !.position = p] :
            p \in {None, Some(<<0, 70, 100>>), Some(<<-5, 10>>)}}
    \cup {[NoOpt EXCEPT !.file = Some(f)] : f \in FileLists}
    \cup {[NoOpt EXCEPT !.file = Some(<<"gradients.svg">>), !.svg_id = Some("b")]}

\* --width and --height
Sizes == {<<Some(2), Some(0)>>, <<Some(11), Some(3)>>, <<Some(2), Some(60)>>}

\* --background, --cb-color
Backgrounds == {<<None, None>>, <<Some(Blue), None>>, <<None, Some(<<White, Red>>)>>}

\* The command lines of block mode: every source, and every size and
\* background of one source
BlockOpts ==
    Sources
    \cup
    {[NoOpt EXCEPT !.custom = Some(<<HalfRed, Clear>>), !.width = z[1], !.height = z[2],
                   !.background = b[1], !.cb_color = b[2]] :
        z \in Sizes \cup {<<None, None>>}, b \in Backgrounds}

\* --take, --sample (positions as fractions <<numerator, denominator>>)
Picks == {<<Some(3), None>>, <<Some(1), None>>,
          <<None, Some(<< <<1, 1>>, <<35, 100>>, <<-5, 1>> >>)>>}

\* The command lines of the colour modes: every source but none with
\* every pick, background and format, as an array or not; no source (run
\* then reads no other option); and one with a width beyond every limit
ColorOpts ==
    {[s EXCEPT !.take = p[1], !.sample = p[2], !.array = a, !.background = b,
               !.format = f] :
        s \in Sources \ {NoOpt}, p \in Picks, a \in BOOLEAN, b \in {None, Some(Blue)},
        f \in {None, Some("Rgb"), Some("Rgb255")}}
    \cup
    {[NoOpt EXCEPT !.take = Some(3)],
     [NoOpt EXCEPT !.preset = Some("magma"), !.take = Some(3), !.width = Some(1500)]}

\* terminal_size::terminal_size(): the width, or None
TermWidths == {None, Some(4), Some(12)}

\* The pipe behind stdout: the writes it takes before one fails (None: no
\* write fails) and the kind of the io::Error
Pipes ==
    {[budget |-> None, kind |-> ""]}
    \cup {[budget |-> Some(n), kind |-> k] : n \in {0, 3}, k \in {"BrokenPipe", "Other"}}

\* What the process runs with; overflow_checks: the build panics on integer
\* overflow (a debug build) or wraps (a release build)
Envs ==
    {[term |-> t, tty |-> y, pipe |-> p, overflow_checks |-> c] :
        t \in TermWidths, y \in BOOLEAN, p \in Pipes, c \in BOOLEAN}

\* ------------------------------------------------------------------ main.rs: run
\* io::Result<i32>, and a panic of the thread (exit status 101)
Ok(c) == [tag |-> "Ok", code |-> c, kind |-> ""]
Err(k) == [tag |-> "Err", code |-> 0, kind |-> k]
Panicked == [tag |-> "panic", code |-> 101, kind |-> ""]

\* rs is where a run stands: what it wrote to stdout and to the error
\* stream, and what ended it (None while it goes on). Every step below is
\* skipped once the run has ended, as `?` and a panic leave the function.
\* write!(self.stdout, ..)?, for each entry of ws in turn
Write(rs, e, ws) ==
    IF rs.ret # None
    THEN rs
    ELSE IF e.pipe.budget = None \/ Len(rs.out) + Len(ws) <= e.pipe.budget[1]
    THEN [rs EXCEPT !.out = @ \o ws]
    ELSE [rs EXCEPT !.out = SubSeq(@ \o ws, 1, e.pipe.budget[1]),
                    !.ret = Some(Err(e.pipe.kind))]

\* writeln!(io::stderr(), ..)?, the error stream taking every write
EWrite(rs, msg) == IF rs.ret # None THEN rs ELSE [rs EXCEPT !.errs = Append(@, msg)]

\* the function returns r
Return_(rs, r) == IF rs.ret # None THEN rs ELSE [rs EXCEPT !.ret = Some(r)]

\* self.handle_output(&grad)?
Output(g, o, e, rs, grad) ==
    LET written(h) == IF h.panic
                      THEN Return_(Write(rs, e, h.ws), Panicked)
                      ELSE Write(rs, e, h.ws)
    IN written(handle_output(g, o, e, grad))

\* fn preset_gradient
preset_gradient(g, o, e, rs) ==
    LET key == PresetKey[o.preset[1]]
    IN IF key \in DOMAIN PresetGradients
       THEN Return_(Output(g, o, e, rs, PresetGradients[key]), Ok(0))
       ELSE Return_(EWrite(rs, "Error: Invalid preset gradient name."), Ok(1))

\* fn custom_gradient
custom_gradient(g, o, e, rs) ==
    LET gb == build(o.custom[1], o.position)
    IN IF gb # None
       THEN Return_(Output(g, o, e, rs, gb[1]), Ok(0))
       ELSE Return_(EWrite(rs, "Custom gradient error"), Ok(1))

\* file_gradient, lines 462-486: the loop over the gradients of a markup
\* file, from gradient i on
RECURSIVE svg_gradients(_, _, _, _, _, _, _)
svg_gradients(g, o, e, rs, filename, gradients, i) ==
    IF i > Len(gradients)
    THEN rs
    ELSE LET grad == gradients[i][1]
             id == gradients[i][2]
             skipped == id # None /\ o.svg_id # None /\ id # o.svg_id
             stop == id # None /\ o.svg_id # None /\ id = o.svg_id
             shown == g.cfg.is_stdout \/ g.output_mode = "Gradient"
             rs1 == IF shown
                    THEN Write(rs, e, <<Item("svg", filename, <<>>, <<>>)>>)
                    ELSE rs
             next(rs2) == IF stop
                          THEN rs2
                          ELSE svg_gradients(g, o, e, rs2, filename, gradients, i + 1)
         IN IF skipped
            THEN svg_gradients(g, o, e, rs, filename, gradients, i + 1)
            ELSE next(Output(g, o, e, rs1, grad))

\* file_gradient, lines 420-491: one turn of the loop over the files
file_gradient_path(g, o, e, rs, path) ==
    LET shown == g.cfg.is_stdout \/ g.output_mode = "Gradient"
        ext == IF extension[path] # None THEN to_lowercase[extension[path][1]] ELSE ""
    IN CASE ext = "ggr" ->
            LET rs1 == IF shown THEN Write(rs, e, <<Item("path", path, <<>>, <<>>)>>)
                       ELSE rs
            IN IF ~FileExists(path)
               THEN Return_(rs1, Panicked)
               ELSE IF parse_ggr(path) # None
               THEN Output(g, o, e,
                        IF shown THEN Write(rs1, e, <<Item("name", path, <<>>, <<>>)>>)
                        ELSE rs1,
                        parse_ggr(path)[1])
               ELSE IF shown
               THEN Write(rs1, e, <<Item("ggr error", path, <<>>, <<>>)>>)
               ELSE rs1
         [] ext = "svg" ->
            LET gradients == parse_svg_file(path)
                rs1 == IF shown /\ gradients = <<>>
                       THEN Write(rs, e, <<Item("path", path, <<>>, <<>>),
                                           Item("No gradients.", path, <<>>, <<>>)>>)
                       ELSE rs
            IN svg_gradients(g, o, e, rs1, path, gradients, 1)
         [] OTHER -> rs

Line(t) == Item("text", t, <<>>, <<>>)

\* ga.run()? of example_help: a run of its own GradientApp on the options o
\* with the gradient they name; what it returns is dropped, an error is not
example_run(o, e, rs, grad) == Output(GradientApp_new(o, e), o, e, rs, grad)

\* fn example_help
example_help(e, rs) ==
    LET o1 == [NoOpt EXCEPT !.preset = Some("rainbow"), !.width = Some(80)]
        o3 == [NoOpt EXCEPT !.custom = Some(<<Red, Blue, White, Grey>>), !.width = Some(80)]
        o4 == [NoOpt EXCEPT !.custom = Some(<<Red, White>>), !.width = Some(80)]
        o5 == [NoOpt EXCEPT !.preset = Some("viridis"), !.width = Some(80),
                            !.take = Some(10)]
        r1 == Write(rs, e, <<Line("EXAMPLES:"), Line("gradient --preset rainbow")>>)
        r2 == example_run(o1, e, r1, Gradient(0, 1, Red, Blue))
        r3 == Write(r2, e, <<Line("gradient --preset turbo")>>)
        r4 == example_run(o1, e, r3, Gradient(0, 1, Blue, Red))
        r5 == Write(r4, e, <<Line("gradient --custom C41189 ..")>>)
        r6 == example_run(o3, e, r5, Gradient(0, 1, Red, Grey))
        r7 == Write(r6, e, <<Line("gradient --file Test.svg Neon_Green.ggr"),
                             Line("Test.svg #purple-gradient")>>)
        r8 == example_run(o4, e, r7, Gradient(0, 1, Red, White))
        r9 == Write(r8, e, <<Line("Neon_Green.ggr Neon Green")>>)
        r10 == Write(r9, e, display_gradient(GradientApp_new(o4, e).cfg,
                                             Gradient(0, 1, Grey, White)))
        r11 == Write(r10, e, <<Line("gradient --preset viridis --take 10")>>)
        r12 == example_run(o5, e, r11, Gradient(0, 1, Blue, White))
    IN Return_(r12, Ok(1))

\* GradientApp::run calls a source as `self.source()?; return Ok(0);`
run_source(rs) ==
    IF rs.ret # None /\ rs.ret[1].tag = "Ok"
    THEN [rs EXCEPT !.ret = Some(Ok(0))]
    ELSE rs

exit_of_as_every_error_fails(r) ==
    CASE r.tag = "Ok" -> r.code
      [] r.tag = "Err" -> 1
      [] OTHER -> 101

\* fn main, lines 708-721: the exit status for what run returned, and what
\* eprintln! wrote
exit_of(r) ==
    CASE r.tag = "Ok" -> r.code
      [] r.tag = "Err" -> IF r.kind = "BrokenPipe" THEN 0 ELSE 1
      [] OTHER -> 101

\* ------------------------------------------------------------------ main.rs: state
InitApp ==
    /\ target_id = None
    /\ res = <<>>
    /\ index = 0
    /\ prev_pos = NegInf
    /\ inside = FALSE
    /\ skip = FALSE
    /\ panicked = FALSE
    /\ last_stop = NoAttributes
    /\ pc = "off"
    /\ nread = 0
    /\ nstops = 0
    /\ builders = <<>>
    /\ cursor = 0
    /\ calls = 0
    /\ open = FALSE
    /\ nesting = FALSE
    /\ solo = InitLocals
    /\ alone = <<>>
    /\ tally = <<>>
    /\ opt \in BlockOpts \cup ColorOpts
    /\ env \in Envs
    /\ ga = None
    /\ out = <<>>
    /\ errs = <<>>
    /\ ret = None
    /\ exit_code = None
    /\ apc = "new"
    /\ fi = 0
    /\ ToolsOff

Rs == [out |-> out, errs |-> errs, ret |-> ret]

\* the run has got to rs: on to main's match once it has ended
SetRs(rs) ==
    /\ out' = rs.out
    /\ errs' = rs.errs
    /\ ret' = rs.ret
    /\ apc' = IF rs.ret # None THEN "main" ELSE apc

\* let mut ga = GradientApp::new(opt, io::stdout())
New ==
    /\ apc = "new"
    /\ ga' = Some(GradientApp_new(opt, env))
    /\ apc' = "run"
    /\ UNCHANGED <<svgvars, clivars, utilvars, opt, env, out, errs, ret, exit_code, fi>>

\* run, lines 282-288
ListPresets ==
    /\ apc = "run"
    /\ opt.list_presets
    /\ SetRs(Return_(Write(Rs, env, [i \in 1..38 |-> Line("preset name")]), Ok(0)))
    /\ UNCHANGED <<svgvars, clivars, utilvars, opt, env, ga, exit_code, fi>>

\* run, lines 290-293
PresetGradient ==
    /\ apc = "run"
    /\ ~opt.list_presets /\ opt.preset # None
    /\ SetRs(run_source(preset_gradient(ga[1], opt, env, Rs)))
    /\ UNCHANGED <<svgvars, clivars, utilvars, opt, env, ga, exit_code, fi>>

\* run, lines 295-298
CustomGradient ==
    /\ apc = "run"
    /\ ~opt.list_presets /\ opt.preset = None /\ opt.custom # None
    /\ SetRs(run_source(custom_gradient(ga[1], opt, env, Rs)))
    /\ UNCHANGED <<svgvars, clivars, utilvars, opt, env, ga, exit_code, fi>>

\* run, lines 300-303, and file_gradient: the next file of the list, and
\* Ok(0) after the last
FileGradient ==
    /\ apc = "run"
    /\ ~opt.list_presets /\ opt.preset = None /\ opt.custom = None /\ opt.file # None
    /\ fi < Len(opt.file[1])
    /\ fi' = fi + 1
    /\ LET after(rs) == IF fi + 1 = Len(opt.file[1])
                         THEN run_source(Return_(rs, Ok(0)))
                         ELSE rs
       IN SetRs(after(file_gradient_path(ga[1], opt, env, Rs, opt.file[1][fi + 1])))
    /\ UNCHANGED <<svgvars, clivars, utilvars, opt, env, ga, exit_code>>

\* run, lines 305-311
NoSource ==
    /\ apc = "run"
    /\ ~opt.list_presets /\ opt.preset = None /\ opt.custom = None /\ opt.file = None
    /\ SetRs(Return_(example_help(env, Write(Rs, env, <<Line("error: Specify gradient")>>)),
                     Ok(1)))
    /\ UNCHANGED <<svgvars, clivars, utilvars, opt, env, ga, exit_code, fi>>

\* main, lines 708-721
Exit ==
    /\ apc = "main"
    /\ exit_code' = Some(exit_of(ret[1]))
    /\ errs' = IF ret[1].tag = "Err" /\ ret[1].kind # "BrokenPipe"
               THEN Append(errs, ret[1].kind)
               ELSE errs
    /\ apc' = "exited"
    /\ UNCHANGED <<svgvars, clivars, utilvars, opt, env, ga, out, ret, fi>>

NextApp ==
    \/ New
    \/ ListPresets
    \/ PresetGradient
    \/ CustomGradient
    \/ FileGradient
    \/ NoSource
    \/ Exit

SpecApp == InitApp /\ [][NextApp]_vars

\* ------------------------------------------------------------------ cli.rs
\* The longest command line explored, in options
MaxArgs == 3

\* Opt, Default::default(). blend_mode, interpolation, ggr_bg, ggr_fg, svg_id,
\* file, height, background, cb_color, format and named_colors are set by
\* arms of the shape of --width's and read by no other arm.
DefaultOpt ==
    [list_presets |-> FALSE, preset |-> None, custom |-> None, position |-> None,
     css |-> None, width |-> None, take |-> None, sample |-> None, array |-> FALSE]

\* fn parse_preset_name: the name in lower case if PRESET_NAMES has it, or
\* None for the error
parse_preset_name(s) ==
    LET lower == IF s = "Plasma" THEN "plasma" ELSE s
    IN IF lower \in {"magma", "plasma", "rainbow"} THEN Some(lower) ELSE None

\* fn parse_colors on a word without a comma outside parentheses: the one
\* colour it names, or None for the error
parse_colors(s) ==
    CASE s = "red" -> Some(<<Red>>)
      [] s = "blue" -> Some(<<Blue>>)
      [] OTHER -> None

\* fn parse_floats: the numbers between the commas, or None for the error
parse_floats(s) ==
    CASE s = "0.1" -> Some(<< <<1, 10>> >>)
      [] s = "0.73" -> Some(<< <<73, 100>> >>)
      [] s = "0,1" -> Some(<< <<0, 1>>, <<1, 1>> >>)
      [] OTHER -> None

\* str::parse::<usize>
parse_usize(s) ==
    CASE s = "5" -> Some(5)
      [] s = "40" -> Some(40)
      [] OTHER -> None

\* One option of a command line as lexopt hands it over: the Arg that
\* parser.next() yields and the values that follow it, which parser.value()
\* and parser.values() take.
Option(arg, values) == [arg |-> arg, values |-> values]

\* The options a command line is made of
Options ==
    {Option(a, <<>>) : a \in {"-h", "--help", "--version", "--list-presets", "--array",
                              "--bogus", "--preset", "--custom", "--css"}}
    \cup {Option("--preset", <<v>>) : v \in {"magma", "Plasma", "sky"}}
    \cup {Option("--custom", v) : v \in {<<"red">>, <<"red", "blue">>, <<"red", "sky">>}}
    \cup {Option("--css", <<"red,blue">>)}
    \cup {Option("--take", <<v>>) : v \in {"5", "x"}}
    \cup {Option("--sample", v) : v \in {<<"0.1", "0.73">>, <<"6p">>}}
    \cup {Option("--position", <<"0,1">>), Option("--width", <<"40">>)}

\* The command lines
RECURSIVE CommandLines(_)
CommandLines(n) ==
    IF n = 0
    THEN {<<>>}
    ELSE CommandLines(n - 1)
         \cup {Append(c, o) : c \in {d \in CommandLines(n - 1) : Len(d) = n - 1},
                              o \in Options}

\* std::process::exit(code) from within parse_args, beside the Ok(opt) and
\* Err(message) it returns
exit(code) == [tag |-> "exit", code |-> code, kind |-> ""]

\* ValueExt::parse_with(f) and parse(): the conversion f of the value s, None
\* for its error; a value taken as a string converts to itself
parse_with(f, s) ==
    CASE f = "parse_preset_name" -> parse_preset_name(s)
      [] f = "parse_colors" -> parse_colors(s)
      [] f = "parse_floats" -> parse_floats(s)
      [] f = "usize" -> parse_usize(s)
      [] OTHER -> Some(s)

\* parser.value()?.parse_with(f)?: the first value, converted; None for the
\* error of a missing value or of the conversion
value(o, f) == IF o.values = <<>> THEN None ELSE parse_with(f, o.values[1])

\* for s in parser.values()? { let v = s.parse_with(f)?; extend }: every
\* value converted and appended to what the field held; None for the error
\* of no value or of a conversion
RECURSIVE extend(_, _, _, _)
extend(field, vs, f, i) ==
    IF i > Len(vs)
    THEN field
    ELSE LET more(v) ==
                 IF v = None
                 THEN None
                 ELSE extend(Some((IF field = None THEN <<>> ELSE field[1]) \o v[1]),
                             vs, f, i + 1)
         IN more(parse_with(f, vs[i]))

values(field, o, f) == IF o.values = <<>> THEN None ELSE extend(field, o.values, f, 1)

\* ------------------------------------------------------------------ cli.rs: state
InitArgs ==
    /\ target_id = None
    /\ res = <<>>
    /\ index = 0
    /\ prev_pos = NegInf
    /\ inside = FALSE
    /\ skip = FALSE
    /\ panicked = FALSE
    /\ last_stop = NoAttributes
    /\ pc = "off"
    /\ nread = 0
    /\ nstops = 0
    /\ builders = <<>>
    /\ cursor = 0
    /\ calls = 0
    /\ open = FALSE
    /\ nesting = FALSE
    /\ solo = InitLocals
    /\ alone = <<>>
    /\ tally = <<>>
    /\ AppOff
    /\ args \in CommandLines(MaxArgs)
    /\ argi = 0
    /\ popt = Some(DefaultOpt)
    /\ pres = None
    /\ ufg = None
    /\ ubg = None
    /\ ublend = None
    /\ upc = <<>>

\* while let Some(arg) = parser.next()?: the option the loop is at
Looping == pres = None /\ popt # None /\ argi < Len(args)
Arg == args[argi + 1]

\* the arm is left: with the field set, or with the error returned
Set(o) ==
    /\ popt' = Some(o)
    /\ argi' = argi + 1
    /\ pres' = pres

Fail(msg) ==
    /\ pres' = Some(Err(msg))
    /\ UNCHANGED <<popt, argi>>

\* Short('h'), Long("help"), Long("version"): print and exit(0)
ArgHelp ==
    /\ Looping
    /\ Arg.arg \in {"-h", "--help", "--version"}
    /\ pres' = Some(exit(0))
    /\ UNCHANGED <<svgvars, appvars, utilvars, args, argi, popt>>

\* Short('l') | Long("list-presets"), Short('a') | Long("array")
ArgFlag ==
    /\ Looping
    /\ Arg.arg \in {"--list-presets", "--array"}
    /\ IF Arg.arg = "--array"
       THEN Set([popt[1] EXCEPT !.array = TRUE])
       ELSE Set([popt[1] EXCEPT !.list_presets = TRUE])
    /\ UNCHANGED <<svgvars, appvars, utilvars, args>>

ArgPreset_as_unchecked ==
    /\ Looping
    /\ Arg.arg = "--preset"
    /\ IF value(Arg, "parse_preset_name") = None
       THEN Fail("invalid value")
       ELSE Set([popt[1] EXCEPT !.preset = value(Arg, "parse_preset_name")])
    /\ UNCHANGED <<svgvars, appvars, utilvars, args>>

\* Short('p') | Long("preset")
ArgPreset ==
    /\ Looping
    /\ Arg.arg = "--preset"
    /\ IF popt[1].custom # None \/ popt[1].css # None
       THEN Fail("choose one: --preset, --custom, --css")
       ELSE IF value(Arg, "parse_preset_name") = None
       THEN Fail("invalid value")
       ELSE Set([popt[1] EXCEPT !.preset = value(Arg, "parse_preset_name")])
    /\ UNCHANGED <<svgvars, appvars, utilvars, args>>

\* Short('c') | Long("custom")
ArgCustom ==
    /\ Looping
    /\ Arg.arg = "--custom"
    /\ IF popt[1].preset # None \/ popt[1].css # None
       THEN Fail("choose one: --preset, --custom, --css")
       ELSE IF values(popt[1].custom, Arg, "parse_colors") = None
       THEN Fail("invalid value")
       ELSE Set([popt[1] EXCEPT !.custom = values(popt[1].custom, Arg, "parse_colors")])
    /\ UNCHANGED <<svgvars, appvars, utilvars, args>>

\* Short('P') | Long("position")
ArgPosition ==
    /\ Looping
    /\ Arg.arg = "--position"
    /\ IF values(popt[1].position, Arg, "parse_floats") = None
       THEN Fail("invalid value")
       ELSE Set([popt[1] EXCEPT !.position = values(popt[1].position, Arg, "parse_floats")])
    /\ UNCHANGED <<svgvars, appvars, utilvars, args>>

\* Short('C') | Long("css")
ArgCss ==
    /\ Looping
    /\ Arg.arg = "--css"
    /\ IF popt[1].custom # None \/ popt[1].preset # None
       THEN Fail("choose one: --preset, --custom, --css")
       ELSE IF value(Arg, "string") = None
       THEN Fail("invalid value")
       ELSE Set([popt[1] EXCEPT !.css = value(Arg, "string")])
    /\ UNCHANGED <<svgvars, appvars, utilvars, args>>

\* Short('W') | Long("width")
ArgWidth ==
    /\ Looping
    /\ Arg.arg = "--width"
    /\ IF value(Arg, "usize") = None
       THEN Fail("invalid value")
       ELSE Set([popt[1] EXCEPT !.width = value(Arg, "usize")])
    /\ UNCHANGED <<svgvars, appvars, utilvars, args>>

\* Short('t') | Long("take")
ArgTake ==
    /\ Looping
    /\ Arg.arg = "--take"
    /\ IF popt[1].sample # None
       THEN Fail("--take cannot be used with --sample")
       ELSE IF value(Arg, "usize") = None
       THEN Fail("invalid value")
       ELSE Set([popt[1] EXCEPT !.take = value(Arg, "usize")])
    /\ UNCHANGED <<svgvars, appvars, utilvars, args>>

\* Short('s') | Long("sample")
ArgSample ==
    /\ Looping
    /\ Arg.arg = "--sample"
    /\ IF popt[1].take # None
       THEN Fail("--take cannot be used with --sample")
       ELSE IF values(popt[1].sample, Arg, "parse_floats") = None
       THEN Fail("invalid value")
       ELSE Set([popt[1] EXCEPT !.sample = values(popt[1].sample, Arg, "parse_floats")])
    /\ UNCHANGED <<svgvars, appvars, utilvars, args>>

\* _ => return Err(arg.unexpected())
ArgUnexpected ==
    /\ Looping
    /\ Arg.arg = "--bogus"
    /\ Fail("unexpected argument")
    /\ UNCHANGED <<svgvars, appvars, utilvars, args>>

\* Ok(opt), the loop over
ArgsDone ==
    /\ pres = None /\ popt # None /\ argi = Len(args)
    /\ pres' = Some(Ok(0))
    /\ UNCHANGED <<svgvars, appvars, utilvars, args, argi, popt>>

NextArgs ==
    \/ ArgHelp
    \/ ArgFlag
    \/ ArgPreset
    \/ ArgCustom
    \/ ArgPosition
    \/ ArgCss
    \/ ArgWidth
    \/ ArgTake
    \/ ArgSample
    \/ ArgUnexpected
    \/ ArgsDone

SpecArgs == InitArgs /\ [][NextArgs]_vars

\* ------------------------------------------------------------------ util.rs
\* The most calls made on one pair of colours
MaxCalls == 2

\* pub fn blend_color(fg, bg) -> Color: Color::new of the three channels and
\* an alpha of 1.0
blend_color(fg, bg) ==
    [r |-> (((100 * 100) - fg.a) * bg.r + fg.a * fg.r) \div (100 * 100),
     g |-> (((100 * 100) - fg.a) * bg.g + fg.a * fg.g) \div (100 * 100),
     b |-> (((100 * 100) - fg.a) * bg.b + fg.a * fg.b) \div (100 * 100),
     a |-> 100 * 100]

blend_on_as_alpha_first(fg, bg) ==
    LET green(f) == [f EXCEPT !.g = (((100 * 100) - f.a) * bg.g + f.a * f.g) \div (100 * 100)]
        blue(f) == [f EXCEPT !.b = (((100 * 100) - f.a) * bg.b + f.a * f.b) \div (100 * 100)]
        red(f) == [f EXCEPT !.r = (((100 * 100) - f.a) * bg.r + f.a * f.r) \div (100 * 100)]
        alpha(f) == [f EXCEPT !.a = 100 * 100]
    IN blue(green(red(alpha(fg))))

\* pub fn blend_on(fg: &mut Color, bg): the four assignments to fg in turn,
\* each reading fg as the ones before left it
blend_on(fg, bg) ==
    LET red(f) == [f EXCEPT !.r = (((100 * 100) - f.a) * bg.r + f.a * f.r) \div (100 * 100)]
        green(f) == [f EXCEPT !.g = (((100 * 100) - f.a) * bg.g + f.a * f.g) \div (100 * 100)]
        blue(f) == [f EXCEPT !.b = (((100 * 100) - f.a) * bg.b + f.a * f.b) \div (100 * 100)]
        alpha(f) == [f EXCEPT !.a = 100 * 100]
    IN alpha(blue(green(red(fg))))

\* The colours the two are called on: every alpha from clear to opaque
UtilColors ==
    {Rgba(r, g, b, a) : r \in {0, 100}, g \in {0, 50}, b \in {30, 100}, a \in {0, 25, 50, 100}}

InitUtil ==
    /\ target_id = None
    /\ res = <<>>
    /\ index = 0
    /\ prev_pos = NegInf
    /\ inside = FALSE
    /\ skip = FALSE
    /\ panicked = FALSE
    /\ last_stop = NoAttributes
    /\ pc = "off"
    /\ nread = 0
    /\ nstops = 0
    /\ builders = <<>>
    /\ cursor = 0
    /\ calls = 0
    /\ open = FALSE
    /\ nesting = FALSE
    /\ solo = InitLocals
    /\ alone = <<>>
    /\ tally = <<>>
    /\ AppOff
    /\ args = <<>>
    /\ argi = 0
    /\ popt = None
    /\ pres = None
    /\ ufg \in UtilColors
    /\ ubg \in UtilColors
    /\ ublend = None
    /\ upc = <<>>

\* let c = blend_color(&fg, &bg)
BlendColor ==
    /\ ufg # None
    /\ Len(upc) < MaxCalls
    /\ ublend' = Some(blend_color(ufg, ubg))
    /\ upc' = Append(upc, "blend_color")
    /\ UNCHANGED <<svgvars, appvars, clivars, ufg, ubg>>

\* blend_on(&mut fg, &bg)
BlendOn ==
    /\ ufg # None
    /\ Len(upc) < MaxCalls
    /\ ufg' = blend_on(ufg, ubg)
    /\ upc' = Append(upc, "blend_on")
    /\ UNCHANGED <<svgvars, appvars, clivars, ubg, ublend>>

NextUtil == BlendColor \/ BlendOn

SpecUtil == InitUtil /\ [][NextUtil]_vars

\* ------------------------------------------------------------------ claims
Last(v) == v[Len(v)]

\* The step reads a stop tag, and line 105 lets it through to res[index].
StopStep == nstops' = nstops + 1
Handled == inside /\ ~skip /\ index + 1 <= Len(res)

\* What the gradient start tags read so far should give: the record of each
\* one whose id passes the filter, parsed on its own.
Matches(r) == target_id = None \/ r.id = target_id
Expected == SelectSeq(alone, Matches)

\* C1: in a document whose gradient elements are not nested, whatever the
\* offsets of the stops (decreasing, missing, NaN, infinite, unparsable), the
\* positions parse_svg stores in one record are non-decreasing.
C1_PositionsNonDecreasing ==
    (pc = "reading" /\ ~nesting) =>
        \A i \in 1..Len(res) :
            \A j \in 1..(Len(res[i].pos) - 1) :
                FLe(res[i].pos[j], res[i].pos[j + 1])

\* C2: a handled stop tag with an unparsable attribute marks res[index]
\* invalid and stores nothing, and a parsable stop tag handled while
\* res[index] is invalid is still appended to it.
C2_InvalidKeepsAccumulating ==
    [][(StopStep /\ Handled) =>
        LET r == res[index + 1]
            r2 == res'[index + 1]
        IN /\ BadToken(last_stop') =>
                ~r2.valid /\ r2.colors = r.colors /\ r2.pos = r.pos
           /\ (~BadToken(last_stop') /\ ~r.valid) =>
                /\ ~r2.valid
                /\ Len(r2.colors) = Len(r.colors) + 1
                /\ Len(r2.pos) = Len(r.pos) + 1]_vars

\* C2 witness: a record that took an unparsable stop and then stored the
\* stop that followed it.
C2_Witness ==
    \E i \in 1..Len(res) :
        /\ ~res[i].valid
        /\ tally[i] = [seen |-> 2, unparsable |-> 1, late |-> 1]
        /\ Len(res[i].pos) = 1

\* C3 as stated: the stops stored in a record are the stop tags handled
\* while it was active, less those that arrived after it was marked invalid.
C3_StoredStopsCountAllButLate ==
    \A i \in 1..Len(res) :
        ~Called(i) => Len(res[i].pos) = tally[i].seen - tally[i].late

\* C3 as amended: the stops stored in a record are the stop tags handled
\* while it was active whose present attributes all parse, whether or not
\* the record was already marked invalid.
C3_StoredStopsCountParsable ==
    \A i \in 1..Len(res) :
        ~Called(i) =>
            /\ Len(res[i].pos) = tally[i].seen - tally[i].unparsable
            /\ Len(res[i].colors) = Len(res[i].pos)

\* C3 witness: a record that stored a stop and then took an unparsable one.
C3_Witness ==
    \E i \in 1..Len(res) :
        /\ tally[i] = [seen |-> 2, unparsable |-> 1, late |-> 0]
        /\ Len(res[i].pos) = 1

\* C4: a record is created valid and empty, and no step (a later stop, a
\* closing tag, another gradient, gradient_builder) makes an invalid record
\* valid again.
C4_InvalidIsPermanent ==
    [][/\ Len(res') >= Len(res)
       /\ \A i \in 1..Len(res) : ~res[i].valid => ~res'[i].valid
       /\ \A i \in (Len(res) + 1)..Len(res') :
            res'[i].valid /\ res'[i].colors = <<>> /\ res'[i].pos = <<>>]_vars

\* C4 witness: an invalid record that was followed by another gradient and
\* has been through gradient_builder.
C4_Witness ==
    \E i \in 1..Len(res) :
        ~res[i].valid /\ i < Len(res) /\ tally[i].late >= 1 /\ Called(i)

\* C5: in a document whose gradient elements are not nested, every record is
\* what its own element gives when parsed alone, whatever its siblings hold
\* (an unparsable stop among them), and gradient_builder yields a builder for
\* it exactly when its own stops are parsable and there is at least one.
C5_InvalidSiblingIsolated ==
    ~nesting =>
        /\ Len(res) = Len(Expected)
        /\ \A i \in 1..Len(res) :
            /\ ~Called(i) => res[i] = Expected[i]
            /\ Called(i) =>
                (builders[i] # None <=> (Expected[i].valid /\ Expected[i].pos # <<>>))

\* C5 witness: a gradient with an unparsable stop was rejected and the
\* sibling after it, with a parsable stop, gave a builder.
C5_Witness ==
    /\ ~nesting
    /\ Len(res) = 2
    /\ ~res[1].valid /\ Called(1) /\ builders[1] = None
    /\ res[2].valid /\ Called(2) /\ builders[2] # None

\* C6: the ids of the records are the ids of the gradient start tags that pass
\* the filter, in document order (all of them without a filter, only equal
\* ids with one), and, the gradient elements not being nested, each record
\* holds the stops of its own element only.
C6_FilterById ==
    /\ [i \in 1..Len(res) |-> res[i].id] = [i \in 1..Len(Expected) |-> Expected[i].id]
    /\ target_id # None => \A i \in 1..Len(res) : res[i].id = target_id
    /\ target_id = None => Len(res) = Len(alone)
    /\ (pc = "reading" /\ ~nesting) =>
        \A i \in 1..Len(res) :
            /\ res[i].colors = Expected[i].colors
            /\ res[i].pos = Expected[i].pos

\* C6 witness: with the filter "a", a gradient "b" with a stop followed by a
\* gradient "a" with a stop gave one record, holding the stop of "a".
C6_Witness ==
    /\ target_id = Some("a")
    /\ ~nesting
    /\ Len(alone) = 2
    /\ alone[1].id = Some("b") /\ alone[1].pos # <<>>
    /\ alone[2].id = Some("a") /\ alone[2].pos # <<>>
    /\ Len(res) = 1
    /\ res[1].id = Some("a") /\ res[1].pos = alone[2].pos

\* C7: after gradient_builder has returned a builder for a record, the
\* record's first position is exactly 0.0 and its last exactly 1.0.
C7_CoversExactlyUnitInterval ==
    \A i \in 1..Len(res) :
        (Called(i) /\ builders[i] # None) =>
            res[i].pos[1] = F(0) /\ Last(res[i].pos) = F(100)

\* C8: a gradient_builder call on a record whose positions start at 0.0 and
\* end at 1.0, or on a record it was already called on, leaves every record
\* as it is.
C8_BuilderIdempotent ==
    [][(pc = "done" /\ cursor' = cursor /\ cursor \in 1..Len(res)) =>
        LET r == res[cursor]
        IN (\/ calls >= 1
            \/ r.pos # <<>> /\ r.pos[1] = F(0) /\ Last(r.pos) = F(100)) =>
            res' = res]_vars

\* C8 witness: a record with stops at 0 and 1, and no other, has been
\* through gradient_builder twice.
C8_Witness ==
    /\ pc = "done"
    /\ cursor \in 1..Len(res)
    /\ calls = 2
    /\ builders[cursor] # None
    /\ tally[cursor] = [seen |-> 2, unparsable |-> 0, late |-> 0]
    /\ res[cursor].pos = <<F(0), F(100)>>

\* C9: in a document whose gradient elements are not nested, a parsable stop
\* without an offset attribute is stored at the position of the stop stored
\* before it in the record, or at 0 when the record is empty.
C9_MissingOffsetReusesPrevious ==
    [][(StopStep /\ Handled /\ ~nesting
            /\ last_stop'.offset = None /\ ~BadToken(last_stop')) =>
        LET r == res[index + 1]
            r2 == res'[index + 1]
        IN /\ Len(r2.pos) = Len(r.pos) + 1
           /\ Last(r2.pos) = IF r.pos = <<>> THEN F(0) ELSE Last(r.pos)]_vars

\* C9 witness: stops [offset 50%, no offset] gave positions [0.5, 0.5] in the
\* second gradient of a document.
C9_Witness ==
    /\ pc = "reading"
    /\ ~nesting
    /\ Len(res) = 2
    /\ last_stop.offset = None
    /\ res[2].pos = <<F(50), F(50)>>

\* The colour of a stop, from its colour token and its opacity token.
ResolvedColor(c, o) ==
    LET base == IF c # None THEN ParseColor(c[1])[1] ELSE Black
    IN IF o # None
       THEN Color(base.r, base.g, base.b, Clamp01(parse_percent_or_float(o[1])[1]))
       ELSE base

StyleOf(attributes) ==
    IF attributes.style # None THEN parse_styles(attributes.style[1]) ELSE <<None, None>>

IfSome(x, y) == IF x # None THEN x ELSE y

\* C10 as stated: the colour stored for a parsable stop is the stop-color
\* attribute, else the style's stop-color, else opaque black, with the
\* opacity of the stop-opacity attribute, else of the style's stop-opacity.
C10_AttributeWins ==
    [][(StopStep /\ Handled /\ ~BadToken(last_stop')) =>
        LET a == last_stop'
        IN Last(res'[index + 1].colors) =
            ResolvedColor(IfSome(a.stop_color, StyleOf(a)[1]),
                          IfSome(a.stop_opacity, StyleOf(a)[2]))]_vars

\* C10 as amended: the colour stored for a parsable stop is the style's
\* stop-color, else the stop-color attribute, else opaque black, with the
\* opacity of the style's stop-opacity, else of the stop-opacity attribute.
C10_StyleWins ==
    [][(StopStep /\ Handled /\ ~BadToken(last_stop')) =>
        LET a == last_stop'
        IN Last(res'[index + 1].colors) =
            ResolvedColor(IfSome(StyleOf(a)[1], a.stop_color),
                          IfSome(StyleOf(a)[2], a.stop_opacity))]_vars

\* C10 witness: a stop with stop-color="gold" stop-opacity="0.5" and
\* style="STOP-COLOR:tomato; stop-opacity:90%" was stored as tomato at 0.9.
C10_Witness ==
    /\ pc = "reading"
    /\ Handled
    /\ last_stop = Paint(Some("gold"), Some("0.5"), Some(StyleBoth))
    /\ res[index + 1].colors # <<>>
    /\ Last(res[index + 1].colors) = Color(255, 99, 71, F(90))

\* C11: a stop tag read while no gradient element is open (before the first
\* gradient, between two gradients, after the last one) changes nothing:
\* the records, and the locals that decide what later tags store (index,
\* prev_pos, inside, skip), are left as they were, and res[index] is not
\* touched.
C11_OrphanStopChangesNothing ==
    [][(StopStep /\ ~open) =>
        /\ res' = res
        /\ index' = index
        /\ prev_pos' = prev_pos
        /\ inside' = inside
        /\ skip' = skip
        /\ panicked' = panicked]_vars

\* C11 witness: two stop tags were read in an unfiltered document, one of
\* them outside its only gradient, which is closed and holds one stop.
C11_Witness ==
    /\ pc = "reading"
    /\ target_id = None
    /\ ~nesting /\ ~open
    /\ nstops = 2
    /\ Len(res) = 1
    /\ tally[1].seen = 1
    /\ res[1].pos = <<F(50)>>
    /\ last_stop.offset = Some("1")

\* The run of a custom gradient in block mode went through: out is what
\* display_gradient wrote for the gradient.
BlockShown ==
    /\ apc = "exited"
    /\ ret[1] = Ok(0)
    /\ opt.custom # None
    /\ build(opt.custom[1], opt.position) # None
    /\ ga[1].output_mode = "Gradient"

\* What the cell at column x shows when its two samples lie over bgc.
CellOver(cfg, grad, x, bgc) ==
    LET w2 == cfg.width * 2 - 1
        l == rgba_u8(blend(at(grad, remap(2 * x, 0, w2, grad.domain[1], grad.domain[2])), bgc))
        r == rgba_u8(blend(at(grad, remap(2 * x + 1, 0, w2, grad.domain[1], grad.domain[2])),
                           bgc))
    IN <<l[1], l[2], l[3], r[1], r[2], r[3]>>

TileIndex(x, y) == IF ((x \div 2) % 2 = 1) = (y % 2 = 1) THEN 0 ELSE 1

\* C12: in block mode the cell at (x, y) is composited over the solid
\* background when one is configured, else over checkerboard colour
\* ((x / 2) & 1) ^ (y & 1): the first colour for tile 0, the second for
\* tile 1; so for width 4 and height 2, (0,0) and (2,1) lie over the first
\* colour and (2,0) and (0,1) over the second.
C12_CheckerboardTile ==
    BlockShown =>
        LET cfg == ga[1].cfg
            grad == build(opt.custom[1], opt.position)[1]
            cell(x, y) == out[y * (cfg.width + 1) + x + 1]
        IN /\ \A y \in 0..(cfg.height - 1) : \A x \in 0..(cfg.width - 1) :
                /\ cell(x, y).w = "cell"
                /\ cell(x, y).v =
                     CellOver(cfg, grad, x,
                        IF cfg.use_solid_bg THEN cfg.background
                        ELSE cfg.cb_color[1 + TileIndex(x, y)])
           /\ (cfg.width = 4 /\ cfg.height = 2 /\ ~cfg.use_solid_bg) =>
                /\ cell(0, 0).v = CellOver(cfg, grad, 0, cfg.cb_color[1])
                /\ cell(2, 0).v = CellOver(cfg, grad, 2, cfg.cb_color[2])
                /\ cell(0, 1).v = CellOver(cfg, grad, 0, cfg.cb_color[2])
                /\ cell(2, 1).v = CellOver(cfg, grad, 2, cfg.cb_color[1])

\* C12 witness: a gradient from half-transparent red to fully transparent,
\* 4 by 2 over the checkerboard (white, red): (0,0) is red over white, (2,0)
\* is red, (0,1) is red over red and (2,1) is white.
C12_Witness ==
    /\ BlockShown
    /\ ga[1].cfg.width = 4 /\ ga[1].cfg.height = 2
    /\ ~ga[1].cfg.use_solid_bg
    /\ ga[1].cfg.cb_color = <<White, Red>>
    /\ out[1].v = <<255, 128, 128, 255, 128, 128>>
    /\ out[3].v = <<255, 0, 0, 255, 0, 0>>
    /\ out[6].v = <<255, 0, 0, 255, 0, 0>>
    /\ out[8].v = <<255, 255, 255, 255, 255, 255>>

\* The file at the path yields no gradient: it is missing, of an
\* unsupported format, invalid, or holds none.
Unusable(path) ==
    \/ extension[path] = None
    \/ extension[path] # None /\ to_lowercase[extension[path][1]] \notin {"ggr", "svg"}
    \/ extension[path] # None /\ to_lowercase[extension[path][1]] = "ggr"
         /\ (~FileExists(path) \/ parse_ggr(path) = None)
    \/ extension[path] # None /\ to_lowercase[extension[path][1]] = "svg"
         /\ parse_svg_file(path) = <<>>

\* Something the command line asks for fails, or it names no gradient.
RequestFailed ==
    /\ ~opt.list_presets
    /\ \/ opt.preset # None /\ PresetKey[opt.preset[1]] \notin DOMAIN PresetGradients
       \/ opt.preset = None /\ opt.custom # None
            /\ build(opt.custom[1], opt.position) = None
       \/ opt.preset = None /\ opt.custom = None /\ opt.file # None
            /\ \E i \in 1..Len(opt.file[1]) : Unusable(opt.file[1][i])
       \/ opt.preset = None /\ opt.custom = None /\ opt.file = None

\* C13: when run returns a status (no write fails), the process exits with
\* status 1 if something requested failed or no gradient source was given,
\* and with status 0 if everything requested succeeded.
C13_ExitStatusReportsFailure ==
    (apc = "exited" /\ ret[1].tag = "Ok") =>
        exit_code = Some(IF RequestFailed THEN 1 ELSE 0)

\* C14: when a write to stdout fails, nothing more is written to stdout and
\* the process ends: with status 0 and no message if the error is a broken
\* pipe, else with the error on the error stream and a status other than
\* 0; and a run that returns a status had no write fail.
C14_BrokenPipeIsSuccess ==
    /\ (apc = "exited" /\ ret[1].tag = "Err") =>
            /\ Len(out) = env.pipe.budget[1]
            /\ ret[1].kind = env.pipe.kind
            /\ ret[1].kind = "BrokenPipe" =>
                    exit_code = Some(0) /\ "Other" \notin {errs[i] : i \in 1..Len(errs)}
            /\ ret[1].kind # "BrokenPipe" =>
                    exit_code # Some(0) /\ errs # <<>> /\ Last(errs) = ret[1].kind
    /\ (ret # None /\ ret[1].tag = "Ok" /\ env.pipe.budget # None) =>
            Len(out) <= env.pipe.budget[1]

\* C14 witness: the fourth write of a block, a cell, met a broken pipe, and
\* the process exited with status 0.
C14_Witness ==
    /\ apc = "exited"
    /\ exit_code = Some(0)
    /\ ret[1] = Err("BrokenPipe")
    /\ ga[1].output_mode = "Gradient"
    /\ Len(out) = 3
    /\ out[3].w = "cell"

\* "<path>: file not found." for the paths that are missing
FileNotFound(path) == IF path = "missing.ggr" THEN "missing.ggr: file not found." ELSE ""

\* C15: in a run over a list of files in which no write fails, every file
\* of the list is attempted whatever happened to the files before it, a
\* missing file is reported as "<path>: file not found." on the error
\* stream, and the exit status is the worst seen: 1 if a file was unusable.
C15_BatchContinues ==
    (apc = "exited" /\ opt.file # None /\ opt.preset = None /\ opt.custom = None
            /\ ~opt.list_presets /\ ret[1].tag # "Err") =>
        LET files == opt.file[1]
        IN /\ fi = Len(files)
           /\ \A i \in 1..Len(files) :
                ~FileExists(files[i]) =>
                    FileNotFound(files[i]) \in {errs[j] : j \in 1..Len(errs)}
           /\ exit_code = Some(IF \E i \in 1..Len(files) : Unusable(files[i]) THEN 1 ELSE 0)

\* "<path>: file format not supported." for the paths of another format
NotSupported(path) ==
    CASE path = "Cargo.toml" -> "Cargo.toml: file format not supported."
      [] path = "Makefile" -> "Makefile: file format not supported."
      [] OTHER -> ""

\* C16: a file whose extension is neither svg nor ggr, or that has none, is
\* rejected with "<path>: file format not supported." on the error stream,
\* and the run exits with a status other than 0.
C16_UnsupportedFormatRejected ==
    (apc = "exited" /\ opt.file # None /\ opt.preset = None /\ opt.custom = None
            /\ ~opt.list_presets /\ ret[1].tag = "Ok") =>
        \A i \in 1..Len(opt.file[1]) :
            LET path == opt.file[1][i]
            IN (\/ extension[path] = None
                \/ extension[path] # None
                     /\ to_lowercase[extension[path][1]] \notin {"ggr", "svg"}) =>
                    /\ NotSupported(path) \in {errs[j] : j \in 1..Len(errs)}
                    /\ exit_code # Some(0)

\* C17 as stated: the width used is at least 10 and at most the terminal
\* width when that is detected, at most 1000 when it is not, and the height
\* used is within [1, 50].
C17_SizesWithinLimits ==
    ga # None =>
        /\ ga[1].cfg.width >= 10
        /\ ga[1].cfg.width <= unwrap_or(env.term, 1000)
        /\ ga[1].cfg.height \in 1..50

\* C17 as amended: the width used is the width asked for (by default the
\* terminal width, or 80) raised to 10 and then lowered to the limit, the
\* terminal width when detected and 1000 when not: it is at most the limit,
\* at least 10 when the limit is, and the limit itself when that is below
\* 10; the height used is the height asked for (by default 2) within [1, 50].
C17_SizesClamped ==
    ga # None =>
        LET limit == unwrap_or(env.term, 1000)
            asked == unwrap_or(opt.width, unwrap_or(env.term, 80))
            width == ga[1].cfg.width
            height == ga[1].cfg.height
        IN /\ width <= limit
           /\ limit >= 10 => width >= 10
           /\ limit < 10 => width = limit
           /\ (asked >= 10 /\ asked <= limit) => width = asked
           /\ (asked < 10 /\ limit >= 10) => width = 10
           /\ asked > limit => width = limit
           /\ height \in 1..50
           /\ opt.height = None => height = 2
           /\ (opt.height # None /\ opt.height[1] \in 1..50) => height = opt.height[1]
           /\ (opt.height # None /\ opt.height[1] > 50) => height = 50
           /\ (opt.height # None /\ opt.height[1] < 1) => height = 1

\* C17 witness: --width 2 --height 60 on a terminal 4 columns wide gave
\* width 4 and height 50.
C17_Witness ==
    /\ ga # None
    /\ env.term = Some(4)
    /\ opt.width = Some(2) /\ opt.height = Some(60)
    /\ ga[1].cfg.width = 4
    /\ ga[1].cfg.height = 50

\* C18 as stated: when stdout is not a terminal, block mode writes nothing.
C18_BlockSilentOffTerminal ==
    (BlockShown /\ ~ga[1].cfg.is_stdout) => out = <<>>

\* A run of a colour mode on a custom gradient that returned Ok(0)
ColorsShown ==
    /\ apc = "exited"
    /\ ret[1] = Ok(0)
    /\ opt.custom # None
    /\ build(opt.custom[1], opt.position) # None
    /\ ga[1].output_mode # "Gradient"

\* The colours such a run was asked for, in the order asked
Requested ==
    LET grad == build(opt.custom[1], opt.position)[1]
    IN IF ga[1].output_mode = "ColorsN"
       THEN colors(grad, opt.take[1])
       ELSE [i \in 1..Len(opt.sample[1]) |-> at(grad, opt.sample[1][i])]

\* The formatted colours written, in the order written
Written ==
    LET shown == SelectSeq(out, LAMBDA it : it.w \in {"array", "swatch", "line"})
    IN IF shown = <<>> THEN <<>>
       ELSE IF shown[1].w = "array" THEN shown[1].s
       ELSE [i \in 1..Len(shown) |-> shown[i].s[1]]

\* C19 as stated: with a solid background, the colours of --take and
\* --sample are written composited over it in swatch and plain modes, and
\* raw in array mode.
C19_ArrayListsRawColours ==
    (ColorsShown /\ ga[1].cfg.use_solid_bg) =>
        Written = [i \in 1..Len(Requested) |->
                    format_color(IF opt.array
                                 THEN Requested[i]
                                 ELSE blend(Requested[i], ga[1].cfg.background),
                                 ga[1].cfg.output_format)]

\* C20: when stdout is not a terminal and --array is not given, the output of
\* --take and --sample is one formatted colour per line and nothing else: a
\* line for each colour asked for, in the order asked (not sorted), no
\* escape sequence, no swatch, no list, no line of the block.
C20_PlainLinesInRequestOrder ==
    /\ (apc = "exited" /\ ga # <<>> /\ ~env.tty /\ ~opt.array
            /\ ga[1].output_mode # "Gradient"
            /\ (opt.preset # None \/ opt.custom # None \/ opt.file # None)) =>
        \A k \in 1..Len(out) :
            /\ out[k].w \notin {"cell", "reset", "swatch", "array", "\n", " "}
            /\ out[k].v = <<>>
            /\ out[k].w = "line" => Len(out[k].s) = 1
    /\ (ColorsShown /\ ~env.tty /\ ~opt.array) =>
        /\ Len(out) = Len(Requested)
        /\ \A k \in 1..Len(out) :
            out[k] = Item("line", "", <<>>,
                        <<format_color(IF ga[1].cfg.use_solid_bg
                                       THEN blend(Requested[k], ga[1].cfg.background)
                                       ELSE Requested[k],
                                       ga[1].cfg.output_format)>>)

\* C20 witness: --sample 1 0.35 -5 of the gradient from half-transparent red
\* to blue, written to a pipe: three lines, the colour at 1 (blue) first and
\* the colour at -5 (the red end) last.
C20_Witness ==
    /\ ColorsShown /\ ~env.tty /\ ~opt.array
    /\ opt.sample = Some(<< <<1, 1>>, <<35, 100>>, <<-5, 1>> >>)
    /\ opt.position = None /\ opt.background = None /\ opt.format = None
    /\ Len(out) = 3
    /\ out[1] = Item("line", "", <<>>, <<format_color(Blue, "Hex")>>)
    /\ out[3] = Item("line", "", <<>>, <<format_color(HalfRed, "Hex")>>)
    /\ out[1] # out[3]


\* C21: with --array the output of --take and --sample is one line, the
\* list of the formatted colours asked for, in order, and nothing else: no
\* swatch and no line per colour, on a terminal or not.
C21_ArrayIsOneList ==
    /\ (apc = "exited" /\ ga # <<>> /\ opt.array /\ ga[1].output_mode # "Gradient"
            /\ (opt.preset # None \/ opt.custom # None \/ opt.file # None)) =>
        \A k \in 1..Len(out) :
            /\ out[k].w \notin {"cell", "reset", "swatch", "line", "\n", " "}
            /\ out[k].v = <<>>
    /\ (ColorsShown /\ opt.array) =>
        /\ Len(out) = 1
        /\ out[1].w = "array"
        /\ out[1].v = <<>>
        /\ Len(out[1].s) = Len(Requested)
        /\ \A k \in 1..Len(Requested) :
            out[1].s[k] = format_color(IF ga[1].cfg.use_solid_bg
                                       THEN blend(Requested[k], ga[1].cfg.background)
                                       ELSE Requested[k],
                                       ga[1].cfg.output_format)

\* C21 witness: --take 3 --array of a custom gradient on a terminal: one
\* list of three values.
C21_Witness ==
    /\ ColorsShown /\ opt.array /\ env.tty
    /\ opt.take = Some(3)
    /\ Len(out) = 1
    /\ out[1].w = "array"
    /\ Len(out[1].s) = 3

\* The options of a command line that name a gradient, and the colour picks
SourceOptions == {"--preset", "--custom", "--css"}
PickOptions == {"--take", "--sample"}

\* More than one of --preset, --custom and --css, or both --take and
\* --sample, among the options of the command line c
Conflict(c) ==
    \/ Cardinality({c[k].arg : k \in 1..Len(c)} \cap SourceOptions) > 1
    \/ Cardinality({c[k].arg : k \in 1..Len(c)} \cap PickOptions) > 1

\* The options before the first -h, --help or --version
BeforeHelp ==
    LET stops == {k \in 1..Len(args) : args[k].arg \in {"-h", "--help", "--version"}}
    IN IF stops = {}
       THEN args
       ELSE SubSeq(args, 1, (CHOOSE k \in stops : \A j \in stops : k <= j) - 1)

\* At most one of preset, custom and css is set in o, and at most one of take
\* and sample
OneOfEach(o) ==
    /\ Cardinality({f \in {"preset", "custom", "css"} : o[f] # None}) <= 1
    /\ Cardinality({f \in {"take", "sample"} : o[f] # None}) <= 1

\* C22 as stated: parse_args returns an error whenever the command line gives
\* more than one of --preset, --custom and --css, or both --take and
\* --sample, in any order; an Opt it returns has at most one of each group
\* set.
C22_ConflictIsAnError ==
    pres # None =>
        /\ Conflict(args) => pres[1].tag = "Err"
        /\ pres[1].tag = "Ok" => OneOfEach(popt[1])

\* C22 as amended: parse_args returns an error whenever such a conflict is
\* among the options before the first -h, --help or --version, where it
\* prints and exits with status 0; it never returns an Opt for a command line
\* with a conflict, and an Opt it returns has at most one of each group set.
C22_ConflictBeforeHelpIsAnError ==
    /\ popt # None => OneOfEach(popt[1])
    /\ pres # None =>
        /\ Conflict(BeforeHelp) => pres[1].tag = "Err"
        /\ pres[1].tag = "Ok" => ~Conflict(args)
        /\ pres[1].tag = "exit" => BeforeHelp # args

\* C22 witness: --custom before --preset, and the error returned at --preset
C22_Witness ==
    /\ Len(args) = 2
    /\ args[1] = Option("--custom", <<"red", "blue">>)
    /\ args[2] = Option("--preset", <<"magma">>)
    /\ argi = 1
    /\ popt[1].custom = Some(<<Red, Blue>>)
    /\ popt[1].preset = None
    /\ pres = Some(Err("choose one: --preset, --custom, --css"))

\* A run of a colour mode on one gradient, a preset or a custom one, that
\* returned Ok(0); the gradient; the colours asked for, in the order asked
OneGradientShown ==
    /\ apc = "exited"
    /\ ret[1] = Ok(0)
    /\ ga[1].output_mode # "Gradient"
    /\ ~opt.list_presets
    /\ \/ opt.preset # None /\ PresetKey[opt.preset[1]] \in DOMAIN PresetGradients
       \/ opt.preset = None /\ opt.custom # None /\ build(opt.custom[1], opt.position) # None

TheGradient ==
    IF opt.preset # None
    THEN PresetGradients[PresetKey[opt.preset[1]]]
    ELSE build(opt.custom[1], opt.position)[1]

Asked ==
    IF ga[1].output_mode = "ColorsN"
    THEN colors(TheGradient, opt.take[1])
    ELSE [i \in 1..Len(opt.sample[1]) |-> at(TheGradient, opt.sample[1][i])]

\* The colour a swatch shows behind the text: the colour over the solid
\* background, or over black when there is none
Displayed(col) ==
    IF ga[1].cfg.use_solid_bg
    THEN blend(col, ga[1].cfg.background)
    ELSE blend(col, from_rgb(0, 0, 0))

SwatchesWritten == SelectSeq(out, LAMBDA it : it.w = "swatch")

\* The foreground a swatch is to have by the rule: white below a relative
\* luminance of 0.3, else black
ByLuminance(col) ==
    IF color_luminance(col) < 3000 * (100 * 100) THEN <<255, 255, 255>> ELSE <<0, 0, 0>>

\* C23 as stated: the text of a swatch is white when the relative luminance
\* of the colour displayed is below 0.3 and black otherwise, and on pure red
\* it is black.
C23_RedSwatchHasBlackText ==
    /\ (OneGradientShown /\ ga[1].cfg.is_stdout /\ ~opt.array) =>
        \A k \in 1..Len(Asked) :
            SubSeq(SwatchesWritten[k].v, 1, 3) = ByLuminance(Displayed(Asked[k]))
    /\ \A k \in 1..Len(out) :
        (out[k].w = "swatch" /\ SubSeq(out[k].v, 4, 6) = <<255, 0, 0>>) =>
            SubSeq(out[k].v, 1, 3) = <<0, 0, 0>>

\* C23 as amended: the text of a swatch is white when the relative luminance
\* of the colour displayed is below 0.3 and black otherwise; pure red has
\* relative luminance 0.2126, below 0.3, and its text is white.
C23_RedSwatchHasWhiteText ==
    /\ (OneGradientShown /\ ga[1].cfg.is_stdout /\ ~opt.array) =>
        /\ Len(SwatchesWritten) = Len(Asked)
        /\ \A k \in 1..Len(Asked) :
            SubSeq(SwatchesWritten[k].v, 1, 3) = ByLuminance(Displayed(Asked[k]))
    /\ color_luminance(Red) = 2126 * (100 * 100)
    /\ \A k \in 1..Len(out) :
        (out[k].w = "swatch" /\ SubSeq(out[k].v, 4, 6) = <<255, 0, 0>>) =>
            SubSeq(out[k].v, 1, 3) = <<255, 255, 255>>

\* C23 witness: --preset Rd-Bu --take 3 on a terminal: the swatch of pure red
\* with white text; and a run with a swatch of black text.
C23_Witness ==
    /\ OneGradientShown /\ ga[1].cfg.is_stdout /\ ~opt.array
    /\ opt.preset = Some("Rd-Bu") /\ opt.take = Some(3) /\ opt.background = None
    /\ Asked[1] = Red
    /\ SwatchesWritten[1].v = <<255, 255, 255, 255, 0, 0>>
    /\ Len(SwatchesWritten) = 3

\* The characters of the longest line among the writes ws, from write k on,
\* the line being written having n characters so far
RECURSIVE Widest(_, _, _)
Widest(ws, k, n) ==
    IF k > Len(ws)
    THEN n
    ELSE CASE ws[k].w = "\n" -> Max(n, Widest(ws, k + 1, 0))
           [] ws[k].w = " " -> Widest(ws, k + 1, n + 1)
           [] ws[k].w = "swatch" -> Widest(ws, k + 1, n + len(ws[k].s[1]))
           [] OTHER -> Widest(ws, k + 1, n)

\* C24 as stated: in swatch mode on a terminal, whatever the colours and the
\* terminal width, the remaining-width counter never goes below zero (the run
\* does not fail on it) and no line written is longer than the terminal is
\* wide.
C24_SwatchLinesFitTerminal ==
    (/\ apc = "exited"
     /\ ga[1].cfg.is_stdout /\ ~opt.array /\ ~opt.list_presets
     /\ ga[1].output_mode # "Gradient"
     /\ \/ opt.preset # None /\ PresetKey[opt.preset[1]] \in DOMAIN PresetGradients
        \/ opt.preset = None /\ opt.custom # None
            /\ build(opt.custom[1], opt.position) # None) =>
        /\ ret[1].tag # "panic"
        /\ Widest(out, 1, 0) <= ga[1].cfg.term_width

\* One channel of fg over bg: (1 - fg.a) * bg.channel + fg.a * fg.channel
Over(a, f, b) == (((100 * 100) - a) * b + a * f) \div (100 * 100)

\* C25: blend_color returns, channel by channel, (1 - fg.a) * bg + fg.a * fg
\* with an alpha of exactly 1.0 whatever the alphas of fg and bg, as blend of
\* main.rs does, and changes neither argument; blend_on leaves in fg exactly what blend_color(fg, bg)
\* returns, and leaves bg alone.
C25_BlendIsSourceOverOpaque ==
    [][/\ upc' = Append(upc, "blend_color") =>
            /\ ublend' = Some([r |-> Over(ufg.a, ufg.r, ubg.r),
                               g |-> Over(ufg.a, ufg.g, ubg.g),
                               b |-> Over(ufg.a, ufg.b, ubg.b),
                               a |-> 100 * 100])
            /\ ublend' = Some(blend(ufg, ubg))
            /\ ufg' = ufg
            /\ ubg' = ubg
       /\ upc' = Append(upc, "blend_on") =>
            /\ ufg' = blend_color(ufg, ubg)
            /\ ufg'.a = 100 * 100
            /\ ubg' = ubg]_vars

\* C25 witness: a colour of alpha 0.25 blended both ways over another: what
\* blend_color returned is a true mix, opaque, and blend_on left the same in
\* fg.
C25_Witness ==
    /\ upc = <<"blend_color", "blend_on">>
    /\ ublend # None
    /\ ufg = ublend[1]
    /\ ufg = [r |-> 2500, g |-> 3750, b |-> 8250, a |-> 100 * 100]
    /\ ubg = Rgba(0, 50, 100, 50)

\* C26 as stated: a gradient start tag that the id filter lets through pushes
\* a new empty valid record, and every stop stored afterwards, until the
\* element closes, goes into the record pushed last and into no other.
C26_StopsGoToNewestRecord ==
    [][/\ Len(res') > Len(res) =>
            /\ Len(res') = Len(res) + 1
            /\ Last(res').colors = <<>> /\ Last(res').pos = <<>> /\ Last(res').valid
       /\ StopStep =>
            \A i \in 1..Len(res) :
                i # Len(res) => (res'[i].colors = res[i].colors /\ res'[i].pos = res[i].pos)]_vars

\* C27: the end tag that closes a gradient element deactivates the record
\* and resets the running maximum offset, so that, the gradient elements not
\* being nested, the first stop stored in the next record is placed by its
\* own offset alone: at the offset when it is finite, and at 0 when the stop
\* has no offset or an infinite one, whatever position the gradient before
\* ended at.
C27_CloseResetsRunningMaximum ==
    [][/\ (open /\ ~open') => (~inside' /\ prev_pos' = NegInf)
       /\ (StopStep /\ Handled /\ ~nesting /\ ~BadToken(last_stop')
                /\ res[index + 1].pos = <<>>) =>
            LET off == StopOffset(last_stop')[2]
            IN res'[index + 1].pos =
                    <<IF off # None /\ IsFinite(off[1]) THEN off[1] ELSE F(0)>>]_vars

\* C27 witness: the first gradient ended at 1.0 and was closed, and the stop
\* without an offset in the second one was stored at 0.
C27_Witness ==
    /\ pc = "reading"
    /\ ~nesting
    /\ Len(res) = 2
    /\ res[1].pos = <<F(100)>>
    /\ last_stop.offset = None
    /\ res[2].pos = <<F(0)>>
    /\ prev_pos = F(0)

\* Sample i of the 2 * width samples of a row, laid linearly over the domain
\* of the gradient: the fraction dmin + i * (dmax - dmin) / (2 * width - 1)
SampleAt(cfg, grad, i) ==
    <<grad.domain[1] * (2 * cfg.width - 1) + i * (grad.domain[2] - grad.domain[1]),
      2 * cfg.width - 1>>

\* C28: block mode writes height rows, each of width cells and the colour
\* reset that ends it; the cell at column x shows sample 2x as its foreground
\* (the left half) and sample 2x + 1 as its background (the right half), the
\* samples being laid linearly over the gradient's domain from its minimum
\* (sample 0) to its maximum (sample 2 * width - 1), and the two samples of a
\* cell are blended over one and the same background colour.
C28_RowsOfHalfBlockCells ==
    BlockShown =>
        LET cfg == ga[1].cfg
            grad == build(opt.custom[1], opt.position)[1]
            shown(col, bgc) == SubSeq(rgba_u8(blend(col, bgc)), 1, 3)
        IN /\ Len(out) = cfg.height * (cfg.width + 1)
           /\ SampleAt(cfg, grad, 0)[1] = grad.domain[1] * SampleAt(cfg, grad, 0)[2]
           /\ SampleAt(cfg, grad, 2 * cfg.width - 1)[1]
                = grad.domain[2] * SampleAt(cfg, grad, 2 * cfg.width - 1)[2]
           /\ \A y \in 0..(cfg.height - 1) :
                /\ out[y * (cfg.width + 1) + cfg.width + 1] = RowEnd
                /\ \A x \in 0..(cfg.width - 1) :
                    LET cell == out[y * (cfg.width + 1) + x + 1]
                    IN /\ cell.w = "cell"
                       /\ \E bgc \in {cfg.background, cfg.cb_color[1], cfg.cb_color[2]} :
                            /\ SubSeq(cell.v, 1, 3)
                                = shown(at(grad, SampleAt(cfg, grad, 2 * x)), bgc)
                            /\ SubSeq(cell.v, 4, 6)
                                = shown(at(grad, SampleAt(cfg, grad, 2 * x + 1)), bgc)

\* C28 witness: 11 columns by 3 rows of the gradient from half-transparent
\* red to transparent over blue: 36 writes, and the middle cell of the first
\* row has the red half on the left and the background on the right.
C28_Witness ==
    /\ BlockShown
    /\ ga[1].cfg.width = 11 /\ ga[1].cfg.height = 3
    /\ ga[1].cfg.use_solid_bg /\ ga[1].cfg.background = Blue
    /\ Len(out) = 36
    /\ out[6].v = <<128, 0, 128, 0, 0, 255>>
    /\ out[12] = RowEnd

\* a step of the caller that calls gradient_builder on res[cursor] for the
\* first or the second time
BuilderCall ==
    pc = "done" /\ cursor' = cursor /\ cursor \in 1..Len(res) /\ calls' = calls + 1

\* C29: a gradient_builder call returns no builder exactly when the record is
\* marked invalid or holds no stop, and then the record's colours and
\* positions are what they were before the call, an invalid record with
\* stops included; the builder it returns for a valid record with at least
\* one stop holds as many colours as positions.
C29_NoBuilderLeavesRecordAlone ==
    [][BuilderCall =>
        LET r == res[cursor]
            gb == builders'[cursor]
        IN /\ gb = None <=> (~r.valid \/ Len(r.colors) = 0)
           /\ gb = None => res' = res
           /\ gb # None =>
                /\ Len(gb[1].colors) = Len(gb[1].domain)
                /\ Len(gb[1].colors) >= 1
           /\ \A i \in 1..Len(res) : i # cursor => res'[i] = res[i]]_vars

\* C29 witness: gradient_builder has been called on an invalid record whose
\* one stored stop lies between 0 and 1; it gave no builder and the record is
\* as the extractor left it, with neither 0 nor 1 added to its positions.
C29_Witness ==
    /\ ~nesting
    /\ \E i \in 1..Len(res) :
        /\ Called(i) /\ ~res[i].valid /\ builders[i] = None
        /\ Len(res[i].pos) = 1 /\ Len(res[i].colors) = 1
        /\ FGt(res[i].pos[1], F(0)) /\ FLt(res[i].pos[1], F(100))
        /\ res[i] = Expected[i]

\* C30: whatever gradient start tags, end tags, self-closing tags and stops
\* the document holds, closed or not, nested or not, filtered by id or not,
\* no res[index] of parse_svg was out of range, and while a gradient element
\* is open the record index lies below the number of records.
C30_RecordIndexInRange ==
    /\ ~panicked
    /\ index <= Len(res)
    /\ (pc = "reading" /\ inside) => index + 1 <= Len(res)

\* C30 witness: under an id filter, a start tag that passes, a start tag
\* inside it that does not, and a third that passes, none of them closed;
\* the stop that follows was written to res[index], the first of two records.
C30_Witness ==
    /\ pc = "reading"
    /\ target_id # None
    /\ nesting
    /\ Len(alone) = 3 /\ Len(res) = 2
    /\ inside /\ ~skip /\ index = 0
    /\ Len(res[1].pos) = 1 /\ res[2].pos = <<>>
    /\ ~panicked

============================================================================
